---- MODULE Spec2Model ----
(***************************************************************************)
(* rh-manager: employee roster, hours bank, vacation / leave periods and   *)
(* paid days off.  The module models                                       *)
(*   - the text helpers of the employee detail page (minutesToHHMM,        *)
(*     hhmmToMinutes) and the registration sanitizers,                     *)
(*   - the two storage implementations of server/storage.ts (SqliteStorage *)
(*     and MemStorage),                                                    *)
(*   - the HTTP handlers of server/routes.ts that mutate the store.        *)
(* Texts are sequences of one-character strings.                           *)
(***************************************************************************)
EXTENDS Integers, Sequences, FiniteSets, TLC

(***************************************************************************)
(* Bounds of the model                                                     *)
(***************************************************************************)
\* minutes range over -MaxMinutes..MaxMinutes (6000 minutes = "100:00")
MaxMinutes == 6010
\* registration strings of the sanitizer check have at most MaxRegLen characters
MaxRegLen == 3
\* a bulk import carries at most MaxRows rows
MaxRows == 3
\* at most MaxEmployees employee ids are ever generated
MaxEmployees == 3
\* the records specification generates at most MaxRecords ids of dependent
\* records
MaxRecords == 1
\* the records specification creates at most MaxOwners employees
MaxOwners == 2
\* period start dates and the clock range over the days 1..MaxDay
MaxDay == 2

\* texts of the validity check have at most MaxTimeLen characters ("-12:34")
MaxTimeLen == 6

\* the hours specification creates at most MaxEntries hours-bank entries
MaxEntries == 3

\* the paid-days-off specification creates at most MaxDaysOff paid days off
MaxDaysOff == 2

(***************************************************************************)
(* Characters and JavaScript string primitives                             *)
(***************************************************************************)
Digits == {"0", "1", "2", "3", "4", "5", "6", "7", "8", "9"}

\* the characters matched by \s that the model's alphabets contain
Whitespace == {" ", "\t"}

DigitVal(c) ==
  CASE c = "0" -> 0 [] c = "1" -> 1 [] c = "2" -> 2 [] c = "3" -> 3
    [] c = "4" -> 4 [] c = "5" -> 5 [] c = "6" -> 6 [] c = "7" -> 7
    [] c = "8" -> 8 [] c = "9" -> 9

DigitChar(d) ==
  CASE d = 0 -> "0" [] d = 1 -> "1" [] d = 2 -> "2" [] d = 3 -> "3"
    [] d = 4 -> "4" [] d = 5 -> "5" [] d = 6 -> "6" [] d = 7 -> "7"
    [] d = 8 -> "8" [] d = 9 -> "9"

Abs(n) == IF n < 0 THEN -n ELSE n

\* String.prototype.trim
RECURSIVE trimStart(_)
trimStart(s) ==
  IF s # <<>> /\ Head(s) \in Whitespace THEN trimStart(Tail(s)) ELSE s

RECURSIVE trimEnd(_)
trimEnd(s) ==
  IF s # <<>> /\ s[Len(s)] \in Whitespace
  THEN trimEnd(SubSeq(s, 1, Len(s) - 1)) ELSE s

trim(s) == trimEnd(trimStart(s))

\* String(n) for a non-negative integer n
RECURSIVE String(_)
String(n) ==
  IF n < 10 THEN <<DigitChar(n)>>
  ELSE String(n \div 10) \o <<DigitChar(n % 10)>>

\* s.padStart(2, "0")
padStart2(s) ==
  IF Len(s) >= 2 THEN s
  ELSE IF Len(s) = 1 THEN <<"0">> \o s ELSE <<"0", "0">>

\* the value of the longest prefix of digits of s, and the prefix's length
RECURSIVE DigitPrefixLen(_)
DigitPrefixLen(s) ==
  IF s # <<>> /\ Head(s) \in Digits THEN 1 + DigitPrefixLen(Tail(s)) ELSE 0

RECURSIVE DecimalValue(_)
DecimalValue(s) ==
  IF s = <<>> THEN 0
  ELSE 10 * DecimalValue(SubSeq(s, 1, Len(s) - 1)) + DigitVal(s[Len(s)])

NaN == [nan |-> TRUE, n |-> 0]

\* parseInt(s): leading whitespace skipped, optional sign, longest digit
\* prefix; NaN when there is no digit
parseInt(s) ==
  LET t    == trimStart(s)
      sgn  == t # <<>> /\ Head(t) \in {"+", "-"}
      body == IF sgn THEN Tail(t) ELSE t
      k    == DigitPrefixLen(body)
      v    == DecimalValue(SubSeq(body, 1, k))
  IN IF k = 0 THEN NaN
     ELSE [nan |-> FALSE, n |-> IF sgn /\ Head(t) = "-" THEN -v ELSE v]

\* x || 0 for a number x: NaN and 0 are falsy
OrZero(x) == IF x.nan THEN 0 ELSE x.n

\* s.split(":")
RECURSIVE split(_)
split(s) ==
  IF \A i \in 1..Len(s) : s[i] # ":" THEN <<s>>
  ELSE LET k == CHOOSE i \in 1..Len(s) :
                  s[i] = ":" /\ \A j \in 1..(i - 1) : s[j] # ":"
       IN <<SubSeq(s, 1, k - 1)>> \o split(SubSeq(s, k + 1, Len(s)))

IsDigitChar(c) == c \in Digits

(***************************************************************************)
(* Time text helpers of the employee detail page                           *)
(***************************************************************************)
\* minutesToHHMM with the sign dropped
minutesToHHMM_NoSign(minutes) ==
  padStart2(String(Abs(minutes) \div 60)) \o <<":">>
    \o padStart2(String(Abs(minutes) % 60))

minutesToHHMM(minutes) ==
  LET hours == Abs(minutes) \div 60
      mins  == Abs(minutes) % 60
      sign  == IF minutes < 0 THEN <<"-">> ELSE <<>>
  IN sign \o padStart2(String(hours)) \o <<":">> \o padStart2(String(mins))

\* hhmmToMinutes that reads a text without a colon as a number of minutes
hhmmToMinutes_RawMinutes(hhmmStr) ==
  LET neg   == hhmmStr # <<>> /\ Head(hhmmStr) = "-"
      clean == IF neg THEN Tail(hhmmStr) ELSE hhmmStr
      parts == split(clean)
      total == IF Len(parts) = 2
               THEN OrZero(parseInt(parts[1])) * 60 + OrZero(parseInt(parts[2]))
               ELSE DecimalValue(SelectSeq(clean, IsDigitChar))
  IN IF neg THEN -total ELSE total

\* hhmmToMinutes that reads the minute component as hours' fraction of 100
hhmmToMinutes_Base100(hhmmStr) ==
  LET neg   == hhmmStr # <<>> /\ Head(hhmmStr) = "-"
      clean == IF neg THEN Tail(hhmmStr) ELSE hhmmStr
      parts == split(clean)
      total == IF Len(parts) = 2
               THEN OrZero(parseInt(parts[1])) * 100 + OrZero(parseInt(parts[2]))
               ELSE 0
  IN IF neg THEN -total ELSE total

hhmmToMinutes(hhmmStr) ==
  IF hhmmStr = <<>> THEN 0
  ELSE
    LET startsMinus == Head(hhmmStr) = "-"
        startsPlus  == Head(hhmmStr) = "+"
        isNegative  == startsMinus
                         \/ (startsPlus /\ Len(hhmmStr) > 1 /\ hhmmStr[1] = "-")
        cleanStr    == trim(IF Head(hhmmStr) \in {"+", "-"}
                            THEN Tail(hhmmStr) ELSE hhmmStr)
        hasColon    == \E i \in 1..Len(cleanStr) : cleanStr[i] = ":"
        parts       == split(cleanStr)
        digits      == SelectSeq(cleanStr, IsDigitChar)
        num         == DecimalValue(digits)
        hm == IF hasColon
              THEN IF Len(parts) = 2
                   THEN <<OrZero(parseInt(parts[1])), OrZero(parseInt(parts[2]))>>
                   ELSE <<0, 0>>
              ELSE IF Len(digits) = 4
                   THEN <<OrZero(parseInt(SubSeq(digits, 1, 2))),
                          OrZero(parseInt(SubSeq(digits, 3, 4)))>>
              ELSE IF Len(digits) = 3
                   THEN <<OrZero(parseInt(SubSeq(digits, 1, 1))),
                          OrZero(parseInt(SubSeq(digits, 2, 3)))>>
              ELSE IF Len(digits) = 2
                   THEN <<0, OrZero(parseInt(digits))>>
              ELSE IF Len(digits) > 0
                   THEN IF num > 60 THEN <<num \div 100, num % 100>>
                                    ELSE <<0, num>>
              ELSE <<0, 0>>
        hours == IF hm[2] >= 60 THEN hm[1] + (hm[2] \div 60) ELSE hm[1]
        mins  == IF hm[2] >= 60 THEN hm[2] % 60 ELSE hm[2]
        totalMinutes == hours * 60 + mins
    IN IF isNegative THEN -totalMinutes ELSE totalMinutes

\* pattern.test(value): /^\d{1,2}:\d{2}$/, or /^-?\d{1,2}:\d{2}$/ when
\* allowNegative
MatchesHHMM(value, allowNegative) ==
  LET body == IF allowNegative /\ value # <<>> /\ Head(value) = "-"
              THEN Tail(value) ELSE value
      h    == Len(body) - 3
  IN /\ h \in {1, 2}
     /\ \A i \in 1..h : body[i] \in Digits
     /\ body[h + 1] = ":"
     /\ body[h + 2] \in Digits
     /\ body[h + 3] \in Digits

\* isValidHHMM without the minute bound
isValidHHMM_AnyMinutes(value, allowNegative) ==
  value # <<>> /\ MatchesHHMM(value, allowNegative)

isValidHHMM(value, allowNegative) ==
  IF value = <<>> THEN FALSE
  ELSE IF ~MatchesHHMM(value, allowNegative) THEN FALSE
  ELSE LET parts == split(IF Head(value) = "-" THEN Tail(value) ELSE value)
           mm    == parseInt(parts[2])
       IN ~mm.nan /\ mm.n < 60

(***************************************************************************)
(* Registration sanitizers                                                 *)
(***************************************************************************)
\* the characters removed by /[\s.-]/g
IsKept(c) == c \notin (Whitespace \cup {".", "-"})

\* replace without the g flag: only the first match is removed
RECURSIVE RemoveFirstMatch(_)
RemoveFirstMatch(s) ==
  IF s = <<>> THEN s
  ELSE IF ~IsKept(Head(s)) THEN Tail(s)
  ELSE <<Head(s)>> \o RemoveFirstMatch(Tail(s))

sanitizeRegistration_First(reg) == trim(RemoveFirstMatch(reg))

\* server/routes.ts, inside POST /api/employees/bulk
sanitizeRegistration(reg) == trim(SelectSeq(reg, IsKept))

\* the dialog's sanitizer that only trims
sanitizeRegistrationDialog_Trim(reg) == trim(reg)

\* client/src/components/app-sidebar.tsx, BulkImportDialog
sanitizeRegistrationDialog(reg) == trim(SelectSeq(reg, IsKept))

(***************************************************************************)
(* State                                                                   *)
(***************************************************************************)
VARIABLES
  impl,         \* which storage the server exports: "mem" or "sqlite"
  employees,    \* id -> Employee
  hoursBank,    \* id -> HoursBank
  vacations,    \* id -> VacationPeriod
  leaves,       \* id -> LeavePeriod
  paidDaysOff,  \* id -> PaidDayOff
  nextEmp,      \* number of employee ids generated so far (randomUUID)
  nextRec,      \* number of dependent-record ids generated so far (randomUUID)
  owners,       \* record: dependent-record id -> the employeeId it was created with
  bulk,         \* the locals of the bulk import handler
  report,       \* the body of the bulk import's last 200 response
  resp,         \* the last HTTP response and the request it answers
  kind,         \* helper check: which helper pipeline is applied to arg
  arg,          \* helper check: the input
  mid,          \* helper check: the first result
  out,          \* helper check: the result of the second application
  alt,          \* helper check: the result of the dialog's sanitizer
  stage         \* helper check: the applications made so far

storeVars == <<impl, employees, hoursBank, vacations, leaves,
               paidDaysOff, nextEmp, nextRec, owners, bulk, report, resp>>
helperVars == <<kind, arg, mid, out, alt, stage>>
vars == <<impl, employees, hoursBank, vacations, leaves,
          paidDaysOff, nextEmp, nextRec, owners, bulk, report, resp,
          kind, arg, mid, out, alt, stage>>

EmptyMap == [x \in {} |-> 0]

\* n: rows.length; rows: the rows the loop has read so far (the handler reads
\* rows.length first and rows[i] at iteration i, so the model draws each row
\* when the loop reads it); i, sanitizedExisting, duplicates, created: the
\* handler's locals; pc: its position; startIds, threw, failedRow: a record
\* of the run (the employees stored when it started, the rows whose creation
\* call threw, the row whose processing ended the handler)
NoBulk == [pc |-> "idle", n |-> 0, rows |-> <<>>, i |-> 0, sanitizedExisting |-> {},
           duplicates |-> <<>>, created |-> 0, startIds |-> {},
           threw |-> {}, failedRow |-> 0]

NoReport == [totalRows |-> 0, created |-> 0, duplicates |-> <<>>]

\* op, status, id: the request answered, the HTTP status and the id named or
\* generated; today, sent: for a created period, the server's calendar date
\* when the storage read the clock and the status the caller sent; was: for
\* an updated period, the status it had before the update
NoResp == [op |-> "none", status |-> 0, id |-> 0, today |-> 0, sent |-> "none",
           was |-> "none"]

\* the store after construction, no request made
StoreIdle ==
  /\ employees = EmptyMap
  /\ hoursBank = EmptyMap
  /\ vacations = EmptyMap
  /\ leaves = EmptyMap
  /\ paidDaysOff = EmptyMap
  /\ nextEmp = 0
  /\ nextRec = 0
  /\ owners = EmptyMap
  /\ bulk = NoBulk
  /\ report = NoReport
  /\ resp = NoResp

HelpersIdle ==
  /\ kind = "off"
  /\ arg = 0
  /\ mid = 0
  /\ out = 0
  /\ alt = 0
  /\ stage = {}

(***************************************************************************)
(* Helper checks: the time text helpers applied to bounded inputs          *)
(***************************************************************************)
TwoDigits(n) == padStart2(String(n))

\* every text d:dd, dd:dd, -d:dd, -dd:dd with a minute value below 60
ValidTimeTexts ==
  LET hourTexts == {String(h) : h \in 0..9} \cup {TwoDigits(h) : h \in 0..99}
      minTexts  == {TwoDigits(m) : m \in 0..59}
  IN {sg \o h \o <<":">> \o m :
        sg \in {<<>>, <<"-">>}, h \in hourTexts, m \in minTexts}

InitTime ==
  /\ impl = "mem"
  /\ StoreIdle
  /\ \/ kind = "minutes" /\ arg \in (-MaxMinutes)..MaxMinutes
     \/ kind = "text" /\ arg \in ValidTimeTexts
  /\ mid = 0
  /\ out = 0
  /\ alt = 0
  /\ stage = {}

\* minutesToHHMM(m)
FormatMinutes ==
  /\ kind = "minutes" /\ stage = {}
  /\ mid' = minutesToHHMM(arg)
  /\ stage' = {"formatted"}
  /\ UNCHANGED <<kind, arg, out, alt>>
  /\ UNCHANGED storeVars

\* hhmmToMinutes(minutesToHHMM(m))
ParseFormatted ==
  /\ kind = "minutes" /\ stage = {"formatted"}
  /\ out' = hhmmToMinutes(mid)
  /\ stage' = {"formatted", "parsed"}
  /\ UNCHANGED <<kind, arg, mid, alt>>
  /\ UNCHANGED storeVars

\* hhmmToMinutes(s)
ParseText ==
  /\ kind = "text" /\ stage = {}
  /\ mid' = hhmmToMinutes(arg)
  /\ stage' = {"parsed"}
  /\ UNCHANGED <<kind, arg, out, alt>>
  /\ UNCHANGED storeVars

\* minutesToHHMM(hhmmToMinutes(s))
FormatParsed ==
  /\ kind = "text" /\ stage = {"parsed"}
  /\ out' = minutesToHHMM(mid)
  /\ stage' = {"parsed", "formatted"}
  /\ UNCHANGED <<kind, arg, mid, alt>>
  /\ UNCHANGED storeVars

NextTime ==
  \/ FormatMinutes
  \/ ParseFormatted
  \/ ParseText
  \/ FormatParsed

SpecTime == InitTime /\ [][NextTime]_vars

(***************************************************************************)
(* Helper checks: isValidHHMM applied to bounded inputs                    *)
(***************************************************************************)
\* two digits (one below and one above the minute bound's first digit), the
\* separator, the sign and one other character
TimeAlphabet == {"0", "6", ":", "-", "A"}

TimeTexts == UNION {[1..n -> TimeAlphabet] : n \in 0..MaxTimeLen}

InitValid ==
  /\ impl = "mem"
  /\ StoreIdle
  /\ kind = "valid"
  /\ arg \in TimeTexts
  /\ alt \in BOOLEAN
  /\ mid = 0
  /\ out = FALSE
  /\ stage = {}

\* isValidHHMM(value, allowNegative)
Validate ==
  /\ kind = "valid" /\ stage = {}
  /\ out' = isValidHHMM(arg, alt)
  /\ stage' = {"validated"}
  /\ UNCHANGED <<kind, arg, mid, alt>>
  /\ UNCHANGED storeVars

NextValid == Validate

SpecValid == InitValid /\ [][NextValid]_vars

(***************************************************************************)
(* Helper checks: hhmmToMinutes applied to bounded inputs                  *)
(***************************************************************************)
\* three digits (texts without a colon reach values below, at and above 60
\* and 100), the separator and the sign
ParseAlphabet == {"0", "1", "6", ":", "-"}

ParseTexts == UNION {[1..n -> ParseAlphabet] : n \in 0..MaxTimeLen}

InitParse ==
  /\ impl = "mem"
  /\ StoreIdle
  /\ kind = "parse"
  /\ arg \in ParseTexts
  /\ mid = 0
  /\ out = 0
  /\ alt = 0
  /\ stage = {}

\* hhmmToMinutes(hhmmStr)
Parse ==
  /\ kind = "parse" /\ stage = {}
  /\ out' = hhmmToMinutes(arg)
  /\ stage' = {"parsed"}
  /\ UNCHANGED <<kind, arg, mid, alt>>
  /\ UNCHANGED storeVars

NextParse == Parse

SpecParse == InitParse /\ [][NextParse]_vars

(***************************************************************************)
(* The entry forms of the employee detail page: HoursBankForm and          *)
(* PaidDayOffForm                                                          *)
(***************************************************************************)
NoSubmit == [submitted |-> FALSE, hours |-> 0]

Mutate(minutes) == [submitted |-> TRUE, hours |-> minutes]

\* HoursBankForm.handleSubmit with the validation left out
HoursBankFormSubmit_Unvalidated(hours) ==
  LET minutes == hhmmToMinutes(hours)
  IN IF minutes = 0 /\ hours # <<"0", ":", "0", "0">>
                    /\ hours # <<"-", "0", ":", "0", "0">>
     THEN NoSubmit
     ELSE Mutate(minutes)

\* HoursBankForm.handleSubmit: the payload handed to mutation.mutate, or none
HoursBankFormSubmit(hours) ==
  IF ~isValidHHMM(hours, TRUE) THEN NoSubmit
  ELSE LET minutes == hhmmToMinutes(hours)
       IN IF minutes = 0 /\ hours # <<"0", ":", "0", "0">>
                         /\ hours # <<"-", "0", ":", "0", "0">>
          THEN NoSubmit
          ELSE Mutate(minutes)

\* PaidDayOffForm.handleSubmit: the payload handed to mutation.mutate, or none
PaidDayOffFormSubmit(date, hours) ==
  IF date = <<>> \/ hours = <<>> THEN NoSubmit
  ELSE IF ~isValidHHMM(hours, FALSE) THEN NoSubmit
  ELSE LET minutes == hhmmToMinutes(hours)
       IN IF minutes = 0 THEN NoSubmit ELSE Mutate(minutes)

\* the digits that reach the least and the greatest hour and minute values,
\* the separator and the sign
FormAlphabet == {"0", "5", "9", ":", "-"}

FormTexts == UNION {[1..n -> FormAlphabet] : n \in 0..MaxTimeLen}

\* the date input: empty or a date
FormDates == {<<>>, <<"2", "0", "2", "5", "-", "0", "1", "-", "0", "1">>}

\* kind: the form; arg: the hours text typed; mid: the date typed (paid day
\* off only)
InitForms ==
  /\ impl = "mem"
  /\ StoreIdle
  /\ \/ kind = "hoursBankForm" /\ mid = <<>>
     \/ kind = "paidDayOffForm" /\ mid \in FormDates
  /\ arg \in FormTexts
  /\ alt = 0
  /\ out = NoSubmit
  /\ stage = {}

SubmitHoursBankForm ==
  /\ kind = "hoursBankForm" /\ stage = {}
  /\ out' = HoursBankFormSubmit(arg)
  /\ stage' = {"submitted"}
  /\ UNCHANGED <<kind, arg, mid, alt>>
  /\ UNCHANGED storeVars

SubmitPaidDayOffForm ==
  /\ kind = "paidDayOffForm" /\ stage = {}
  /\ out' = PaidDayOffFormSubmit(mid, arg)
  /\ stage' = {"submitted"}
  /\ UNCHANGED <<kind, arg, mid, alt>>
  /\ UNCHANGED storeVars

NextForms ==
  \/ SubmitHoursBankForm
  \/ SubmitPaidDayOffForm

SpecForms == InitForms /\ [][NextForms]_vars

(***************************************************************************)
(* Helper checks: the registration sanitizers applied to bounded inputs    *)
(***************************************************************************)
RegAlphabet == {"1", "A", " ", "\t", ".", "-"}

RegTexts == UNION {[1..n -> RegAlphabet] : n \in 0..MaxRegLen}

InitSanitize ==
  /\ impl = "mem"
  /\ StoreIdle
  /\ kind = "registration"
  /\ arg \in RegTexts
  /\ mid = <<>>
  /\ out = <<>>
  /\ alt = <<>>
  /\ stage = {}

\* the server's sanitizeRegistration(r)
SanitizeServer ==
  /\ kind = "registration" /\ "server" \notin stage
  /\ mid' = sanitizeRegistration(arg)
  /\ stage' = stage \cup {"server"}
  /\ UNCHANGED <<kind, arg, out, alt>>
  /\ UNCHANGED storeVars

\* the server's sanitizeRegistration applied to its own result
SanitizeAgain ==
  /\ kind = "registration" /\ "server" \in stage /\ "again" \notin stage
  /\ out' = sanitizeRegistration(mid)
  /\ stage' = stage \cup {"again"}
  /\ UNCHANGED <<kind, arg, mid, alt>>
  /\ UNCHANGED storeVars

\* the import dialog's sanitizeRegistration(r)
SanitizeDialog ==
  /\ kind = "registration" /\ "dialog" \notin stage
  /\ alt' = sanitizeRegistrationDialog(arg)
  /\ stage' = stage \cup {"dialog"}
  /\ UNCHANGED <<kind, arg, mid, out>>
  /\ UNCHANGED storeVars

NextSanitize ==
  \/ SanitizeServer
  \/ SanitizeAgain
  \/ SanitizeDialog

SpecSanitize == InitSanitize /\ [][NextSanitize]_vars

(***************************************************************************)
(* Claims about the helpers                                                *)
(***************************************************************************)
\* C7: for every integer m, hhmmToMinutes(minutesToHHMM(m)) = m.
RoundTripMinutes ==
  (kind = "minutes" /\ "parsed" \in stage) => out = arg

\* a negative value with a three-digit hour count has made the round trip
RoundTripMinutesWitness ==
  /\ kind = "minutes" /\ "parsed" \in stage
  /\ arg < -6000
  /\ mid = <<"-", "1", "0", "0", ":">> \o TwoDigits((-arg) % 60)
  /\ out = arg

\* s with its hours padded to two digits and its sign kept
normalize(s) ==
  LET neg   == s # <<>> /\ Head(s) = "-"
      body  == IF neg THEN Tail(s) ELSE s
      parts == split(body)
  IN (IF neg THEN <<"-">> ELSE <<>>) \o padStart2(parts[1]) \o <<":">> \o parts[2]

\* C8 as stated: for every valid text s (zero-valued ones such as "-00:00"
\* included), minutesToHHMM(hhmmToMinutes(s)) is s with its hours padded to
\* two digits and its sign kept.
RoundTripTextSignKept ==
  (kind = "text" /\ "formatted" \in stage) => out = normalize(arg)

\* C8 amended: for every valid text s, minutesToHHMM(hhmmToMinutes(s)) is s
\* with its hours padded to two digits and its sign kept, except that a
\* signed text whose value is zero ("-0:00", "-00:00") gives "00:00".
RoundTripText ==
  (kind = "text" /\ "formatted" \in stage) =>
    out = IF arg \in {<<"-", "0", ":", "0", "0">>, <<"-", "0", "0", ":", "0", "0">>}
          THEN <<"0", "0", ":", "0", "0">>
          ELSE normalize(arg)

\* a negative one-digit-hour text has been parsed and formatted back
RoundTripTextWitness ==
  /\ kind = "text" /\ "formatted" \in stage
  /\ arg = <<"-", "7", ":", "0", "5">>
  /\ mid = -425
  /\ out = <<"-", "0", "7", ":", "0", "5">>

\* C9: sanitizeRegistration(r) contains no whitespace, period or hyphen, is
\* idempotent, and the server's and the import dialog's sanitizers agree.
SanitizeClean ==
  /\ "server" \in stage =>
       \A k \in 1..Len(mid) : mid[k] \notin (Whitespace \cup {".", "-"})
  /\ "again" \in stage => out = mid
  /\ {"server", "dialog"} \subseteq stage => alt = mid

\* a text with two separators has been sanitized twice and by the dialog
SanitizeCleanWitness ==
  /\ stage = {"server", "again", "dialog"}
  /\ arg = <<"1", "-", ".">>
  /\ mid = <<"1">>
  /\ out = <<"1">>
  /\ alt = <<"1">>

\* every text d:dd, dd:dd with a minute value below 60
UnsignedTimeTexts ==
  {h \o <<":">> \o m :
     h \in {String(x) : x \in 0..9} \cup {TwoDigits(x) : x \in 0..99},
     m \in {TwoDigits(x) : x \in 0..59}}

\* C11: isValidHHMM(text, allowNegative) is true exactly for one or two
\* digits, a colon and two digits with a minute value below 60, preceded by
\* "-" only when allowNegative; false for every other text.
ValidExactly ==
  (kind = "valid" /\ stage = {"validated"}) =>
    out = (\/ arg \in UnsignedTimeTexts
           \/ alt /\ arg # <<>> /\ Head(arg) = "-"
                  /\ Tail(arg) \in UnsignedTimeTexts)

\* "-0:06" has been accepted with allowNegative
ValidExactlyWitness ==
  /\ kind = "valid" /\ stage = {"validated"}
  /\ arg = <<"-", "0", ":", "0", "6">>
  /\ alt = TRUE
  /\ out = TRUE

\* the value of a text d:dd or dd:dd: hours * 60 + minutes
ClockValue(text) ==
  LET n == Len(text)
  IN DecimalValue(SubSeq(text, 1, n - 3)) * 60 + DecimalValue(SubSeq(text, n - 1, n))

\* C21: a form submits a minute value only when the text typed passed the
\* strict validator (a leading "-" allowed in the hours-bank form only), and
\* the value is sign * (hours * 60 + minutes) of that text; a submitted
\* hours-bank value lies in -5999..5999, a submitted paid-day-off value in
\* 1..5999.
FormSubmitsValidated ==
  (stage = {"submitted"} /\ out.submitted) =>
    /\ kind = "hoursBankForm" =>
         /\ \/ arg \in UnsignedTimeTexts /\ out.hours = ClockValue(arg)
            \/ /\ arg # <<>> /\ Head(arg) = "-"
               /\ Tail(arg) \in UnsignedTimeTexts
               /\ out.hours = -ClockValue(Tail(arg))
         /\ out.hours \in -5999..5999
    /\ kind = "paidDayOffForm" =>
         /\ arg \in UnsignedTimeTexts
         /\ out.hours = ClockValue(arg)
         /\ out.hours \in 1..5999

\* the hours-bank form has submitted -5999 for "-99:59"
FormSubmitsValidatedWitness ==
  /\ kind = "hoursBankForm" /\ stage = {"submitted"}
  /\ arg = <<"-", "9", "9", ":", "5", "9">>
  /\ out = Mutate(-5999)

\* the text without its leading "-"
Unsigned(text) == IF text # <<>> /\ Head(text) = "-" THEN Tail(text) ELSE text

\* an optional leading "-", then digits and at most one colon
DigitsAndColon(text) ==
  LET body == Unsigned(text)
  IN /\ \A i \in 1..Len(body) : body[i] \in Digits \cup {":"}
     /\ Cardinality({i \in 1..Len(body) : body[i] = ":"}) <= 1

\* the parsing rules: the magnitude of a text of digits and at most one colon
ParsedMagnitude(body) ==
  LET n == Len(body)
      colons == {i \in 1..n : body[i] = ":"}
      value == DecimalValue(body)
  IN IF colons # {}
     THEN LET c == CHOOSE i \in colons : TRUE
          IN DecimalValue(SubSeq(body, 1, c - 1)) * 60
               + DecimalValue(SubSeq(body, c + 1, n))
     ELSE IF n = 4
     THEN DecimalValue(SubSeq(body, 1, 2)) * 60 + DecimalValue(SubSeq(body, 3, 4))
     ELSE IF n = 3
     THEN DecimalValue(SubSeq(body, 1, 1)) * 60 + DecimalValue(SubSeq(body, 2, 3))
     ELSE IF n <= 2
     THEN value
     ELSE IF value > 60
     THEN (value \div 100) * 60 + (value % 100)
     ELSE value

\* C24: for every text made of an optional leading "-", digits and at most
\* one colon, hhmmToMinutes is the value of the parsing rules: with a colon
\* hours * 60 + minutes; without one, 4 digits read as HHMM, 3 as HMM, 2 or
\* fewer as minutes, a longer text as minutes up to 60 and as value div 100
\* hours, value mod 100 minutes above; negated once when the text starts
\* with "-".
ParsesByRules ==
  (kind = "parse" /\ stage = {"parsed"} /\ DigitsAndColon(arg)) =>
    out = IF arg # <<>> /\ Head(arg) = "-"
          THEN -ParsedMagnitude(Unsigned(arg))
          ELSE ParsedMagnitude(Unsigned(arg))

\* "-00100", five digits with a value above 60, has been read as 1 h 00 min
ParsesByRulesWitness ==
  /\ kind = "parse" /\ stage = {"parsed"}
  /\ arg = <<"-", "0", "0", "1", "0", "0">>
  /\ out = -60

(***************************************************************************)
(* JSON values of request bodies and stored fields                         *)
(***************************************************************************)
Str(s) == [t |-> "str", s |-> s]
Num(s) == [t |-> "num", s |-> s]
Undef == [t |-> "undef", s |-> <<>>]

\* JavaScript truthiness: "", 0 and undefined are falsy
Truthy(v) ==
  \/ v.t = "str" /\ v.s # <<>>
  \/ v.t = "num" /\ DecimalValue(v.s) # 0

Desconhecido ==
  Str(<<"D", "e", "s", "c", "o", "n", "h", "e", "c", "i", "d", "o">>)

Vazio == Str(<<"V", "a", "z", "i", "o">>)

(***************************************************************************)
(* Storage: server/storage.ts, SqliteStorage and MemStorage                *)
(***************************************************************************)
Impls == {"mem", "sqlite"}

\* whether the storage call of a request throws: a MemStorage method never
\* does, a SqliteStorage method opens the database file and may fail
DbOutcomes == IF impl = "sqlite" THEN {"ok", "throws"} ELSE {"ok"}

\* foreign_keys of a connection returned by initDB().  createTables runs
\* PRAGMA foreign_keys = ON on its own connection only; every storage method
\* opens a new connection, where SQLite leaves the pragma off.
ConnForeignKeys == FALSE

Put(map, id, rec) == [k \in DOMAIN map \cup {id} |-> IF k = id THEN rec ELSE map[k]]

Without(map, ids) == [k \in DOMAIN map \ ids |-> map[k]]

\* the records of every employee
OwnedBy_Everyone(map, employeeId) == DOMAIN map

\* the ids of the records of an employee
OwnedBy(map, employeeId) == {k \in DOMAIN map : map[k].employeeId = employeeId}

\* getEmployeeByRegistration(registrationNumber) finds an employee
\* (=== in MemStorage, WHERE registrationNumber = ? in SqliteStorage)
getEmployeeByRegistration(registrationNumber) ==
  \E k \in DOMAIN employees : employees[k].registrationNumber = registrationNumber

\* whether the INSERT / UPDATE of SqliteStorage violates UNIQUE or NOT NULL of
\* the employees table; MemStorage checks nothing
ViolatesConstraint(id, e) ==
  /\ impl = "sqlite"
  /\ \/ \E k \in DOMAIN employees \ {id} :
          employees[k].registrationNumber = e.registrationNumber
     \/ Undef \in {e.fullName, e.registrationNumber, e.position}

\* createEmployee: the employees map after the insert under a fresh id
createEmployee(id, e) ==
  Put(employees, id,
      [id |-> id, fullName |-> e.fullName,
       registrationNumber |-> e.registrationNumber, position |-> e.position])

\* updateEmployee: { ...existing, ...data }; an absent field keeps its value
updateEmployee(id, data) ==
  LET existing == employees[id]
      pick(new, old) == IF new = Undef THEN old ELSE new
  IN Put(employees, id,
         [id |-> IF impl = "mem" /\ "id" \in DOMAIN data
                 THEN data.id ELSE existing.id,
          fullName |-> pick(data.fullName, existing.fullName),
          registrationNumber |->
            pick(data.registrationNumber, existing.registrationNumber),
          position |-> pick(data.position, existing.position)])

\* deleteEmployee: what is left of a dependent table.  MemStorage deletes the
\* entries of the employee; SqliteStorage relies on ON DELETE CASCADE, which
\* acts only when the connection has foreign_keys on.
MemStorageDeleteEmployee(map, id) == Without(map, OwnedBy(map, id))

SqliteStorageDeleteEmployee(map, id) ==
  IF ConnForeignKeys THEN Without(map, OwnedBy(map, id)) ELSE map

deleteEmployee(map, id) ==
  IF impl = "mem"
  THEN MemStorageDeleteEmployee(map, id)
  ELSE SqliteStorageDeleteEmployee(map, id)

\* the local calendar day (days since the epoch) of the instant t, given in
\* hours since the epoch, on a server whose local time is UTC + tz hours
LocalDay(t, tz) == (t + tz) \div 24

\* new Date(x); setHours(0, 0, 0, 0): the instant of local midnight of the
\* local day that contains the instant t
LocalMidnight(t, tz) == LocalDay(t, tz) * 24 - tz

\* new Date("YYYY-MM-DD"): a date-only text is read as midnight UTC
ParseDate(day) == day * 24

\* the status createVacation / createLeave store
MemStoragePeriodStatus(startDate, submitted, now, tz) ==
  LET today == LocalMidnight(now, tz)
      start == LocalMidnight(ParseDate(startDate), tz)
  IN IF start <= today THEN "approved" ELSE submitted

SqliteStoragePeriodStatus(startDate, submitted, now, tz) == submitted

PeriodStatus(startDate, submitted, now, tz) ==
  IF impl = "mem"
  THEN MemStoragePeriodStatus(startDate, submitted, now, tz)
  ELSE SqliteStoragePeriodStatus(startDate, submitted, now, tz)

(***************************************************************************)
(* Employee handlers: server/routes.ts                                     *)
(***************************************************************************)
Reply(op, status, id) ==
  [op |-> op, status |-> status, id |-> id, today |-> 0, sent |-> "none",
   was |-> "none"]

\* no bulk import is between its first and its last step
Idle == bulk.pc \in {"idle", "done", "failed"}

dependentVars == <<hoursBank, vacations, leaves, paidDaysOff, nextRec, owners>>

\* insertEmployeeSchema.safeParse(body).success: three required strings
EmployeeSchemaAccepts(body) ==
  /\ body.fullName.t = "str"
  /\ body.registrationNumber.t = "str"
  /\ body.position.t = "str"

\* the handler of POST /api/employees: validate, look the number up, create
PostEmployeeHandler(body, db) ==
  IF ~EmployeeSchemaAccepts(body)
  THEN /\ resp' = Reply("postEmployee", 400, 0)
       /\ UNCHANGED <<employees, nextEmp>>
  ELSE IF db = "throws"
  THEN /\ resp' = Reply("postEmployee", 500, 0)
       /\ UNCHANGED <<employees, nextEmp>>
  ELSE IF getEmployeeByRegistration(body.registrationNumber)
  THEN /\ resp' = Reply("postEmployee", 400, 0)
       /\ UNCHANGED <<employees, nextEmp>>
  ELSE IF ViolatesConstraint(nextEmp + 1, body)
  THEN /\ resp' = Reply("postEmployee", 500, 0)
       /\ UNCHANGED <<employees, nextEmp>>
  ELSE /\ employees' = createEmployee(nextEmp + 1, body)
       /\ nextEmp' = nextEmp + 1
       /\ resp' = Reply("postEmployee", 201, nextEmp + 1)

\* POST /api/employees while no other request is in flight
PostEmployee(body, db) ==
  /\ Idle
  /\ nextEmp < MaxEmployees
  /\ bulk' = NoBulk
  /\ report' = NoReport
  /\ PostEmployeeHandler(body, db)
  /\ UNCHANGED <<impl, hoursBank, vacations, leaves, paidDaysOff, nextRec, owners>>
  /\ UNCHANGED helperVars

\* POST /api/employees handled while a bulk import waits on a storage call.
\* Every SqliteStorage method awaits initDB(), which opens the database file,
\* so the import's handler yields to the event loop at each call and another
\* request's handler runs; the methods of MemStorage await nothing, so a
\* handler on MemStorage runs to its response without yielding.
PostEmployeeInFlight(body, db) ==
  /\ impl = "sqlite"
  /\ bulk.pc = "loop"
  /\ nextEmp < MaxEmployees
  /\ PostEmployeeHandler(body, db)
  /\ UNCHANGED <<impl, bulk, report, hoursBank, vacations, leaves, paidDaysOff,
                 nextRec, owners>>
  /\ UNCHANGED helperVars

\* PATCH /api/employees/:id
PatchEmployee(id, body, db) ==
  /\ Idle
  /\ bulk' = NoBulk
  /\ report' = NoReport
  /\ IF db = "throws"
     THEN /\ resp' = Reply("patchEmployee", 500, id)
          /\ UNCHANGED employees
     ELSE IF id \notin DOMAIN employees
     THEN /\ resp' = Reply("patchEmployee", 404, id)
          /\ UNCHANGED employees
     ELSE IF /\ Truthy(body.registrationNumber)
             /\ body.registrationNumber # employees[id].registrationNumber
             /\ getEmployeeByRegistration(body.registrationNumber)
     THEN /\ resp' = Reply("patchEmployee", 400, id)
          /\ UNCHANGED employees
     ELSE IF ViolatesConstraint(id, updateEmployee(id, body)[id])
     THEN /\ resp' = Reply("patchEmployee", 500, id)
          /\ UNCHANGED employees
     ELSE /\ employees' = updateEmployee(id, body)
          /\ resp' = Reply("patchEmployee", 200, id)
  /\ UNCHANGED <<impl, nextEmp, hoursBank, vacations, leaves, paidDaysOff,
                 nextRec, owners>>
  /\ UNCHANGED helperVars

\* DELETE /api/employees/:id
DeleteEmployee(id, db) ==
  /\ Idle
  /\ bulk' = NoBulk
  /\ report' = NoReport
  /\ IF db = "throws"
     THEN /\ resp' = Reply("deleteEmployee", 500, id)
          /\ UNCHANGED <<employees, hoursBank, vacations, leaves, paidDaysOff>>
     ELSE IF id \notin DOMAIN employees
     THEN /\ resp' = Reply("deleteEmployee", 404, id)
          /\ UNCHANGED <<employees, hoursBank, vacations, leaves, paidDaysOff>>
     ELSE /\ employees' = Without(employees, {id})
          /\ hoursBank' = deleteEmployee(hoursBank, id)
          /\ vacations' = deleteEmployee(vacations, id)
          /\ leaves' = deleteEmployee(leaves, id)
          /\ paidDaysOff' = deleteEmployee(paidDaysOff, id)
          /\ resp' = Reply("deleteEmployee", 200, id)
  /\ UNCHANGED <<impl, nextEmp, nextRec, owners>>
  /\ UNCHANGED helperVars

(***************************************************************************)
(* Bulk import: POST /api/employees/bulk, one action per step of the loop  *)
(***************************************************************************)
\* 'Dados incompletos', 'Matrícula já existe', 'Erro ao criar'
ReasonIncomplete == "Dados incompletos"
ReasonExists == "Matricula ja existe"
ReasonError == "Erro ao criar"

\* the required-field check that forgets the position
RequiredMissing_NoPosition(row) ==
  ~Truthy(row.fullName) \/ ~Truthy(row.registrationNumber)

\* !fullName || !registrationNumber || !position
RequiredMissing(row) ==
  ~Truthy(row.fullName) \/ ~Truthy(row.registrationNumber) \/ ~Truthy(row.position)

\* the duplicates entry that carries the sanitized registration number
DuplicateEntry_Sanitized(i, row, reason) ==
  [row |-> i + 1,
   fullName |-> IF Truthy(row.fullName) THEN row.fullName ELSE Desconhecido,
   registrationNumber |->
     IF row.registrationNumber.t = "str" /\ Truthy(row.registrationNumber)
     THEN Str(sanitizeRegistration(row.registrationNumber.s)) ELSE Vazio,
   reason |-> reason]

\* duplicates.push({ row: i + 1, fullName, registrationNumber, reason }); the
\* required-field branch writes fullName || 'Desconhecido' and
\* registrationNumber || 'Vazio', which are the fields themselves when truthy
DuplicateEntry(i, row, reason) ==
  [row |-> i + 1,
   fullName |-> IF Truthy(row.fullName) THEN row.fullName ELSE Desconhecido,
   registrationNumber |->
     IF Truthy(row.registrationNumber) THEN row.registrationNumber ELSE Vazio,
   reason |-> reason]

\* the known keys left as they are after a creation
KnownAfterCreate_NoAdd(known, sanitized) == known

\* sanitizedExisting.add(sanitized)
KnownAfterCreate(known, sanitized) == known \cup {sanitized}

\* the known keys with the key of a row whose creation failed added
KnownAfterFailure_Added(known, sanitized) == known \cup {sanitized}

\* the catch block of a row: sanitizedExisting is not touched
KnownAfterFailure(known, sanitized) == known

\* new Set(existingEmployees.map(e => sanitizeRegistration(e.registrationNumber)))
SanitizedExisting ==
  {sanitizeRegistration(employees[k].registrationNumber.s) : k \in DOMAIN employees}

\* !Array.isArray(rows) || rows.length === 0
BulkReject ==
  /\ Idle
  /\ bulk' = NoBulk
  /\ report' = NoReport
  /\ resp' = Reply("bulk", 400, 0)
  /\ UNCHANGED <<impl, employees, nextEmp>>
  /\ UNCHANGED dependentVars
  /\ UNCHANGED helperVars

\* the handler up to the loop: the snapshot of the existing keys
BulkBegin(n, db) ==
  /\ Idle
  /\ n > 0
  /\ nextEmp + n <= MaxEmployees
  /\ report' = NoReport
  /\ IF db = "throws"
     THEN /\ bulk' = [NoBulk EXCEPT !.pc = "failed"]
          /\ resp' = Reply("bulk", 500, 0)
     ELSE /\ bulk' = [pc |-> "loop", n |-> n, rows |-> <<>>, i |-> 0,
                      sanitizedExisting |-> SanitizedExisting,
                      duplicates |-> <<>>, created |-> 0,
                      startIds |-> DOMAIN employees,
                      threw |-> {}, failedRow |-> 0]
          /\ resp' = Reply("bulk", 0, 0)
  /\ UNCHANGED <<impl, employees, nextEmp>>
  /\ UNCHANGED dependentVars
  /\ UNCHANGED helperVars

\* one iteration of the loop, on row = rows[i]
BulkRow(row, db) ==
  /\ bulk.pc = "loop"
  /\ bulk.i < bulk.n
  /\ LET i   == bulk.i
         sanitized == sanitizeRegistration(row.registrationNumber.s)
         skip(reason) ==
           /\ bulk' = [bulk EXCEPT !.i = i + 1, !.rows = Append(@, row),
                         !.duplicates = Append(@, DuplicateEntry(i, row, reason)),
                         !.threw = IF reason = ReasonError
                                   THEN @ \cup {i + 1} ELSE @,
                         !.sanitizedExisting =
                           IF reason = ReasonError
                           THEN KnownAfterFailure(@, sanitized) ELSE @]
           /\ UNCHANGED <<employees, nextEmp, resp>>
     IN IF RequiredMissing(row)
        THEN skip(ReasonIncomplete)
        ELSE IF row.registrationNumber.t # "str"
        THEN \* reg.replace is not a function: thrown outside the row's try
             /\ bulk' = [bulk EXCEPT !.pc = "failed", !.rows = Append(@, row),
                                     !.failedRow = i + 1]
             /\ resp' = Reply("bulk", 500, 0)
             /\ UNCHANGED <<employees, nextEmp>>
        ELSE IF sanitized \in bulk.sanitizedExisting
        THEN skip(ReasonExists)
        ELSE IF db = "throws"
                  \/ ViolatesConstraint(nextEmp + 1,
                       [row EXCEPT !.registrationNumber = Str(sanitized)])
        THEN skip(ReasonError)
        ELSE /\ employees' = createEmployee(nextEmp + 1,
                               [row EXCEPT !.registrationNumber = Str(sanitized)])
             /\ nextEmp' = nextEmp + 1
             /\ bulk' = [bulk EXCEPT !.i = i + 1, !.rows = Append(@, row),
                           !.created = @ + 1,
                           !.sanitizedExisting = KnownAfterCreate(@, sanitized)]
             /\ UNCHANGED resp
  /\ UNCHANGED <<impl, report>>
  /\ UNCHANGED dependentVars
  /\ UNCHANGED helperVars

\* { totalRows: rows.length, created, duplicates }
BulkReport(b) ==
  [totalRows |-> b.n, created |-> b.created, duplicates |-> b.duplicates]

\* res.status(200).json(...) after the loop
BulkRespond ==
  /\ bulk.pc = "loop"
  /\ bulk.i >= bulk.n
  /\ report' = BulkReport(bulk)
  /\ bulk' = [bulk EXCEPT !.pc = "done"]
  /\ resp' = Reply("bulk", 200, 0)
  /\ UNCHANGED <<impl, employees, nextEmp>>
  /\ UNCHANGED dependentVars
  /\ UNCHANGED helperVars

(***************************************************************************)
(* Spec: the employee API, one request at a time                           *)
(***************************************************************************)
NameA == Str(<<"A">>)
Dev == Str(<<"D", "e", "v">>)
R11 == Str(<<"1", "1">>)
R1d1 == Str(<<"1", "-", "1">>)
R2 == Str(<<"2">>)
Rd == Str(<<"-">>)
N7 == Num(<<"7">>)

Row(n, r, p) == [fullName |-> n, registrationNumber |-> r, position |-> p]

\* bodies of POST /api/employees
PostBodies == {Row(NameA, r, Dev) : r \in {R11, R1d1, R2, N7}}

\* bodies of PATCH /api/employees/:id; Undef is an absent field, and the
\* registration number may be the empty text
PatchBodies == {Row(Undef, r, Undef) : r \in {Undef, R11, R1d1, R2, Str(<<>>)}}

\* rows of a bulk import
ImportRows ==
  {Row(NameA, R1d1, Dev), Row(NameA, R11, Dev), Row(NameA, R2, Dev),
   Row(NameA, R2, Str(<<>>)), Row(Str(<<>>), Undef, Dev), Row(NameA, N7, Dev),
   Row(NameA, Rd, Dev)}

\* rows.length of a bulk import
BatchSizes == 1..MaxRows

\* ids a request can name: the generated ones and an unknown one (0)
EmployeeIds == 0..nextEmp

Init ==
  /\ impl \in Impls
  /\ StoreIdle
  /\ HelpersIdle

Next ==
  \/ \E body \in PostBodies, db \in DbOutcomes : PostEmployee(body, db)
  \/ \E id \in EmployeeIds, body \in PatchBodies, db \in DbOutcomes :
       PatchEmployee(id, body, db)
  \/ \E id \in EmployeeIds, db \in DbOutcomes : DeleteEmployee(id, db)
  \/ BulkReject
  \/ \E n \in BatchSizes, db \in DbOutcomes : BulkBegin(n, db)
  \/ \E row \in ImportRows, db \in DbOutcomes : BulkRow(row, db)
  \/ BulkRespond

Spec == Init /\ [][Next]_vars

(***************************************************************************)
(* Handlers of the dependent records: server/routes.ts                     *)
(***************************************************************************)
employeeVars == <<impl, employees, nextEmp>>

\* POST /api/hours-bank, /api/paid-days-off: validate, look the employee up,
\* create.  table is the map written, rec the record without its id.
PostRecord(op, table, body, rec, db) ==
  /\ Idle
  /\ bulk' = NoBulk
  /\ report' = NoReport
  /\ IF ~body.schemaOk
     THEN /\ resp' = Reply(op, 400, 0)
          /\ UNCHANGED <<hoursBank, vacations, leaves, paidDaysOff, nextRec, owners>>
     ELSE IF db = "throws"
     THEN /\ resp' = Reply(op, 500, 0)
          /\ UNCHANGED <<hoursBank, vacations, leaves, paidDaysOff, nextRec, owners>>
     ELSE IF body.employeeId \notin DOMAIN employees
     THEN /\ resp' = Reply(op, 400, 0)
          /\ UNCHANGED <<hoursBank, vacations, leaves, paidDaysOff, nextRec, owners>>
     ELSE /\ nextRec' = nextRec + 1
          /\ owners' = Put(owners, nextRec + 1, body.employeeId)
          /\ hoursBank' = IF table = "hoursBank"
                          THEN Put(hoursBank, nextRec + 1, rec) ELSE hoursBank
          /\ paidDaysOff' = IF table = "paidDaysOff"
                            THEN Put(paidDaysOff, nextRec + 1, rec) ELSE paidDaysOff
          /\ vacations' = IF table = "vacations"
                          THEN Put(vacations, nextRec + 1, rec) ELSE vacations
          /\ leaves' = IF table = "leaves"
                       THEN Put(leaves, nextRec + 1, rec) ELSE leaves
          /\ resp' = [Reply(op, 201, nextRec + 1) EXCEPT
                        !.today = LocalDay(body.now, body.tz),
                        !.sent = body.status]
  /\ UNCHANGED employeeVars
  /\ UNCHANGED helperVars

\* createHoursBank
PostHoursBank(body, db) ==
  PostRecord("postHoursBank", "hoursBank", body,
             [id |-> nextRec + 1, employeeId |-> body.employeeId,
              month |-> body.month, year |-> body.year,
              hours |-> body.hours, description |-> body.description], db)

\* createPaidDayOff
PostPaidDayOff(body, db) ==
  PostRecord("postPaidDayOff", "paidDaysOff", body,
             [id |-> nextRec + 1, employeeId |-> body.employeeId,
              date |-> body.date, hours |-> body.hours,
              year |-> body.year], db)

\* the period createVacation / createLeave store
NewPeriod(body) ==
  [id |-> nextRec + 1, employeeId |-> body.employeeId,
   startDate |-> body.startDate, endDate |-> body.endDate,
   status |-> PeriodStatus(body.startDate, body.status, body.now, body.tz)]

\* POST /api/vacations
PostVacation(body, db) ==
  PostRecord("postVacation", "vacations", body, NewPeriod(body), db)

\* POST /api/leaves
PostLeave(body, db) ==
  PostRecord("postLeave", "leaves", body, NewPeriod(body), db)

\* DELETE /api/hours-bank/:id, /api/vacations/:id, /api/leaves/:id,
\* /api/paid-days-off/:id
DeleteRecord(op, table, id, db) ==
  /\ Idle
  /\ bulk' = NoBulk
  /\ report' = NoReport
  /\ LET map == CASE table = "hoursBank" -> hoursBank
                  [] table = "vacations" -> vacations
                  [] table = "leaves" -> leaves
                  [] table = "paidDaysOff" -> paidDaysOff
     IN IF db = "throws"
        THEN /\ resp' = Reply(op, 500, id)
             /\ UNCHANGED <<hoursBank, vacations, leaves, paidDaysOff>>
        ELSE IF id \notin DOMAIN map
        THEN /\ resp' = Reply(op, 404, id)
             /\ UNCHANGED <<hoursBank, vacations, leaves, paidDaysOff>>
        ELSE /\ resp' = Reply(op, 200, id)
             /\ hoursBank' = IF table = "hoursBank"
                             THEN Without(hoursBank, {id}) ELSE hoursBank
             /\ vacations' = IF table = "vacations"
                             THEN Without(vacations, {id}) ELSE vacations
             /\ leaves' = IF table = "leaves"
                          THEN Without(leaves, {id}) ELSE leaves
             /\ paidDaysOff' = IF table = "paidDaysOff"
                               THEN Without(paidDaysOff, {id}) ELSE paidDaysOff
  /\ UNCHANGED <<nextRec, owners>>
  /\ UNCHANGED employeeVars
  /\ UNCHANGED helperVars

DeleteHoursBank(id, db) == DeleteRecord("deleteHoursBank", "hoursBank", id, db)
DeleteVacation(id, db) == DeleteRecord("deleteVacation", "vacations", id, db)
DeleteLeave(id, db) == DeleteRecord("deleteLeave", "leaves", id, db)
DeletePaidDayOff(id, db) == DeleteRecord("deletePaidDayOff", "paidDaysOff", id, db)

\* the statuses the client's forms and lists know
PeriodStatuses == {"pending", "approved", "rejected", "completed"}

\* a field that the body of a PATCH does not carry
AbsentText == "absent"
AbsentDate == 0

\* { ...existing, ...data } of updateVacation / updateLeave: a field of data
\* replaces the field of existing; a body may also carry employeeId and id
Merged(existing, data) ==
  [id |-> IF "id" \in DOMAIN data THEN data.id ELSE existing.id,
   employeeId |-> IF "employeeId" \in DOMAIN data
                  THEN data.employeeId ELSE existing.employeeId,
   status |-> IF data.status = AbsentText THEN existing.status ELSE data.status,
   startDate |-> IF data.startDate = AbsentDate
                 THEN existing.startDate ELSE data.startDate,
   endDate |-> IF data.endDate = AbsentDate THEN existing.endDate ELSE data.endDate]

\* MemStorage.updateVacation / updateLeave that keeps a completed or rejected
\* period in its status
MemStorageUpdatePeriod_Final(existing, data) ==
  IF existing.status \in {"completed", "rejected"}
  THEN [Merged(existing, data) EXCEPT !.status = existing.status]
  ELSE Merged(existing, data)

\* MemStorage.updateVacation / updateLeave: the merged object is stored under
\* the id of the request
MemStorageUpdatePeriod(existing, data) == Merged(existing, data)

\* SqliteStorage.updateVacation / updateLeave: UPDATE ... SET employeeId,
\* startDate, endDate, status WHERE id = ?; the id column is not written
SqliteStorageUpdatePeriod(existing, data) ==
  [Merged(existing, data) EXCEPT !.id = existing.id]

\* updatePeriod that re-applies the creation rule to the new start date
updatePeriod_Reapproved(existing, data) ==
  LET updated == IF impl = "mem" THEN MemStorageUpdatePeriod(existing, data)
                 ELSE SqliteStorageUpdatePeriod(existing, data)
  IN IF data.startDate # AbsentDate
     THEN [updated EXCEPT !.status = "approved"]
     ELSE updated

updatePeriod(existing, data) ==
  IF impl = "mem" THEN MemStorageUpdatePeriod(existing, data)
  ELSE SqliteStorageUpdatePeriod(existing, data)

\* PATCH /api/vacations/:id
PatchVacation(id, data, db) ==
  /\ Idle
  /\ bulk' = NoBulk
  /\ report' = NoReport
  /\ IF db = "throws"
     THEN resp' = Reply("patchVacation", 500, id) /\ UNCHANGED vacations
     ELSE IF id \notin DOMAIN vacations
     THEN resp' = Reply("patchVacation", 404, id) /\ UNCHANGED vacations
     ELSE /\ vacations' = Put(vacations, id, updatePeriod(vacations[id], data))
          /\ resp' = [Reply("patchVacation", 200, id) EXCEPT !.was = vacations[id].status]
  /\ UNCHANGED <<hoursBank, leaves, paidDaysOff, nextRec, owners>>
  /\ UNCHANGED employeeVars
  /\ UNCHANGED helperVars

\* PATCH /api/leaves/:id
PatchLeave(id, data, db) ==
  /\ Idle
  /\ bulk' = NoBulk
  /\ report' = NoReport
  /\ IF db = "throws"
     THEN resp' = Reply("patchLeave", 500, id) /\ UNCHANGED leaves
     ELSE IF id \notin DOMAIN leaves
     THEN resp' = Reply("patchLeave", 404, id) /\ UNCHANGED leaves
     ELSE /\ leaves' = Put(leaves, id, updatePeriod(leaves[id], data))
          /\ resp' = [Reply("patchLeave", 200, id) EXCEPT !.was = leaves[id].status]
  /\ UNCHANGED <<hoursBank, vacations, paidDaysOff, nextRec, owners>>
  /\ UNCHANGED employeeVars
  /\ UNCHANGED helperVars

(***************************************************************************)
(* SpecRecords: employees and their dependent records, one request at a    *)
(* time                                                                    *)
(***************************************************************************)
OwnerBodies == {Row(NameA, r, Dev) : r \in {R11, R2}}

RecordIds == 0..nextRec

Days == 1..MaxDay

\* hours of the day at which the clock is read
HoursOfDay == {1, 23}

\* the instants, in hours since the epoch, at which the clock is read
Instants == {24 * d + h : d \in Days, h \in HoursOfDay}

\* UTC offsets of the server, in hours
TzOffsets == {-3, 0, 3}

\* bodies of POST /api/hours-bank and /api/paid-days-off; schemaOk is the
\* verdict of the insert schema's safeParse
TimeBodies ==
  {[schemaOk |-> ok, employeeId |-> e, month |-> 1, year |-> 2025,
    date |-> 20250101, hours |-> 90, description |-> "note",
    now |-> 0, tz |-> 0, status |-> "none"] :
     ok \in BOOLEAN, e \in 1..MaxOwners}

\* bodies of POST /api/vacations and /api/leaves, with the clock and the zone
\* the storage reads
PeriodBody(ok, e, d, st, t, z) ==
  [schemaOk |-> ok, employeeId |-> e, startDate |-> d, endDate |-> d + 1,
   status |-> st, now |-> t, tz |-> z]

PeriodBodies ==
  {PeriodBody(TRUE, e, d, st, t, z) :
     e \in 1..MaxOwners, d \in Days, st \in {"pending", "rejected"},
     t \in Instants, z \in TzOffsets}
  \cup {PeriodBody(FALSE, 1, 1, "pending", 24, 0)}

\* bodies of PATCH /api/vacations/:id and /api/leaves/:id
PeriodPatches ==
  [status : {"approved", "completed"}, startDate : {AbsentDate},
   endDate : {AbsentDate}]

InitRecords ==
  /\ impl \in Impls
  /\ StoreIdle
  /\ HelpersIdle

NextRecords ==
  \/ \E body \in OwnerBodies, db \in DbOutcomes :
       nextEmp < MaxOwners /\ PostEmployee(body, db)
  \/ \E id \in EmployeeIds, db \in DbOutcomes : DeleteEmployee(id, db)
  \/ \E body \in TimeBodies, db \in DbOutcomes :
       nextRec < MaxRecords /\ PostHoursBank(body, db)
  \/ \E body \in TimeBodies, db \in DbOutcomes :
       nextRec < MaxRecords /\ PostPaidDayOff(body, db)
  \/ \E body \in PeriodBodies, db \in DbOutcomes :
       nextRec < MaxRecords /\ PostVacation(body, db)
  \/ \E body \in PeriodBodies, db \in DbOutcomes :
       nextRec < MaxRecords /\ PostLeave(body, db)
  \/ \E id \in RecordIds, db \in DbOutcomes : DeleteHoursBank(id, db)
  \/ \E id \in RecordIds, db \in DbOutcomes : DeletePaidDayOff(id, db)
  \/ \E id \in RecordIds, db \in DbOutcomes : DeleteVacation(id, db)
  \/ \E id \in RecordIds, db \in DbOutcomes : DeleteLeave(id, db)
  \/ \E id \in RecordIds, data \in PeriodPatches, db \in DbOutcomes :
       PatchVacation(id, data, db)
  \/ \E id \in RecordIds, data \in PeriodPatches, db \in DbOutcomes :
       PatchLeave(id, data, db)

SpecRecords == InitRecords /\ [][NextRecords]_vars

(***************************************************************************)
(* Hours-bank balance: the employee list and the employee detail page      *)
(***************************************************************************)
\* the order of getAllHoursBank: MemStorage lists Map.values() in insertion
\* order, SqliteStorage selects ORDER BY year DESC, month DESC
ListedBefore(map, a, b) ==
  IF impl = "sqlite"
  THEN \/ map[a].year > map[b].year
       \/ map[a].year = map[b].year /\ map[a].month > map[b].month
       \/ map[a].year = map[b].year /\ map[a].month = map[b].month /\ a <= b
  ELSE a <= b

RECURSIVE Listing(_, _)
Listing(map, ids) ==
  IF ids = {} THEN <<>>
  ELSE LET first == CHOOSE a \in ids : \A b \in ids : ListedBefore(map, a, b)
       IN <<map[first]>> \o Listing(map, ids \ {first})

\* GET /api/hours-bank
getAllHoursBank == Listing(hoursBank, DOMAIN hoursBank)

\* list.filter((h) => h.employeeId === employeeId)
RECURSIVE filterByEmployee(_, _)
filterByEmployee(list, employeeId) ==
  IF list = <<>> THEN <<>>
  ELSE (IF Head(list).employeeId = employeeId THEN <<Head(list)>> ELSE <<>>)
       \o filterByEmployee(Tail(list), employeeId)

\* list.reduce((sum, h) => sum + h.hours, 0)
RECURSIVE reduceHours(_)
reduceHours(list) ==
  IF list = <<>> THEN 0
  ELSE reduceHours(SubSeq(list, 1, Len(list) - 1)) + list[Len(list)].hours

\* the balance summed over the entries of every employee
getEmployeeHoursBalance_Unfiltered(employeeId) == reduceHours(getAllHoursBank)

getEmployeeHoursBalance(employeeId) ==
  reduceHours(filterByEmployee(getAllHoursBank, employeeId))

\* the page fetches the entries and renders the balance of an employee
ReadBalance(employeeId) ==
  /\ Idle
  /\ kind' = "balance"
  /\ arg' = employeeId
  /\ out' = getEmployeeHoursBalance(employeeId)
  /\ UNCHANGED <<mid, alt, stage>>
  /\ UNCHANGED storeVars

\* bodies of POST /api/hours-bank: the first employee is given entries of
\* +480, -120 and +60 minutes in two different months, the second of +60
HourBody(e, h, m) ==
  [schemaOk |-> TRUE, employeeId |-> e, month |-> m, year |-> 2025,
   hours |-> h, description |-> "note", now |-> 0, tz |-> 0, status |-> "none"]

HourBodies ==
  {HourBody(1, 480, 1), HourBody(1, -120, 2), HourBody(1, 60, 1),
   HourBody(2, 60, 1), [HourBody(1, 60, 1) EXCEPT !.schemaOk = FALSE]}

\* the employees the hours specification creates: the one of the entries
\* above and one other
HourOwners == {1, 2}

InitHours ==
  /\ impl \in Impls
  /\ StoreIdle
  /\ HelpersIdle

\* the store is changed by the requests and then read once by the page: a
\* read changes nothing, so every stored state is read
NextHours ==
  \/ \E body \in OwnerBodies, db \in DbOutcomes :
       kind = "off" /\ nextEmp + 1 \in HourOwners /\ PostEmployee(body, db)
  \/ \E id \in EmployeeIds, db \in DbOutcomes :
       kind = "off" /\ DeleteEmployee(id, db)
  \/ \E body \in HourBodies, db \in DbOutcomes :
       kind = "off" /\ nextRec < MaxEntries /\ PostHoursBank(body, db)
  \/ \E id \in RecordIds, db \in DbOutcomes :
       kind = "off" /\ DeleteHoursBank(id, db)
  \/ \E e \in EmployeeIds : kind = "off" /\ ReadBalance(e)

SpecHours == InitHours /\ [][NextHours]_vars

(***************************************************************************)
(* Paid-day-off balance of a year: the employee detail page                *)
(***************************************************************************)
\* the order of getAllPaidDaysOff: insertion order in MemStorage, ORDER BY
\* date DESC in SqliteStorage (dates are yyyymmdd numbers)
RECURSIVE DaysOffListing(_)
DaysOffListing(ids) ==
  IF ids = {} THEN <<>>
  ELSE LET first == CHOOSE a \in ids : \A b \in ids :
                      IF impl = "sqlite"
                      THEN \/ paidDaysOff[a].date > paidDaysOff[b].date
                           \/ paidDaysOff[a].date = paidDaysOff[b].date /\ a <= b
                      ELSE a <= b
       IN <<paidDaysOff[first]>> \o DaysOffListing(ids \ {first})

\* GET /api/paid-days-off
getAllPaidDaysOff == DaysOffListing(DOMAIN paidDaysOff)

\* list.filter(d => d.year === year)
RECURSIVE filterByYear(_, _)
filterByYear(list, year) ==
  IF list = <<>> THEN <<>>
  ELSE (IF Head(list).year = year THEN <<Head(list)>> ELSE <<>>)
       \o filterByYear(Tail(list), year)

\* the balance of a year computed over the paid days off of every year
PaidDaysOffBalance_AllYears(employeeId, year, seedText) ==
  (IF seedText # <<>> THEN hhmmToMinutes(seedText) ELSE 0)
  - reduceHours(filterByEmployee(getAllPaidDaysOff, employeeId))

\* initialHours - totalYearHours, where initialHours is
\* initialHoursByYear[year] ? hhmmToMinutes(initialHoursByYear[year]) : 0
PaidDaysOffBalance(employeeId, year, seedText) ==
  (IF seedText # <<>> THEN hhmmToMinutes(seedText) ELSE 0)
  - reduceHours(filterByYear(filterByEmployee(getAllPaidDaysOff, employeeId),
                             year))

\* the page of an employee renders the balance of a year; seedText is the
\* text of the year's initial-hours field (empty when no seed is set)
ReadDaysOffBalance(employeeId, year, seedText) ==
  /\ Idle
  /\ kind' = "daysOff"
  /\ arg' = [employeeId |-> employeeId, year |-> year, seed |-> seedText]
  /\ out' = PaidDaysOffBalance(employeeId, year, seedText)
  /\ UNCHANGED <<mid, alt, stage>>
  /\ UNCHANGED storeVars

DayOffYears == {2024, 2025}

\* the initial-hours field: not set, or "40:00"
SeedTexts == {<<>>, <<"4", "0", ":", "0", "0">>}

DayOffBody(e, y, h) ==
  [schemaOk |-> TRUE, employeeId |-> e, date |-> y * 10000 + 100 + (h \div 60),
   year |-> y, hours |-> h, now |-> 0, tz |-> 0, status |-> "none"]

\* bodies of POST /api/paid-days-off: the first employee takes 480 and 60
\* minutes in 2025 and 60 in 2024, the second 60 in 2025
DayOffBodies ==
  {DayOffBody(1, 2025, 480), DayOffBody(1, 2025, 60), DayOffBody(1, 2024, 60),
   DayOffBody(2, 2025, 60), [DayOffBody(1, 2025, 60) EXCEPT !.schemaOk = FALSE]}

InitDaysOff ==
  /\ impl \in Impls
  /\ StoreIdle
  /\ HelpersIdle

\* the store is changed by the requests and then read once by the page
NextDaysOff ==
  \/ \E body \in OwnerBodies, db \in DbOutcomes :
       kind = "off" /\ nextEmp + 1 \in HourOwners /\ PostEmployee(body, db)
  \/ \E id \in EmployeeIds, db \in DbOutcomes :
       kind = "off" /\ DeleteEmployee(id, db)
  \/ \E body \in DayOffBodies, db \in DbOutcomes :
       kind = "off" /\ nextRec < MaxDaysOff /\ PostPaidDayOff(body, db)
  \/ \E id \in RecordIds, db \in DbOutcomes :
       kind = "off" /\ DeletePaidDayOff(id, db)
  \/ \E e \in EmployeeIds, y \in DayOffYears, seed \in SeedTexts :
       kind = "off" /\ ReadDaysOffBalance(e, y, seed)

SpecDaysOff == InitDaysOff /\ [][NextDaysOff]_vars

(***************************************************************************)
(* SpecRoster: single creations and updates of employees that own records  *)
(***************************************************************************)
InitRoster ==
  /\ impl \in Impls
  /\ StoreIdle
  /\ HelpersIdle

NextRoster ==
  \/ \E body \in PostBodies, db \in DbOutcomes :
       nextEmp < MaxOwners /\ PostEmployee(body, db)
  \/ \E id \in EmployeeIds, body \in PatchBodies, db \in DbOutcomes :
       PatchEmployee(id, body, db)
  \/ \E body \in TimeBodies, db \in DbOutcomes :
       nextRec < MaxRecords /\ PostHoursBank(body, db)
  \/ \E body \in TimeBodies, db \in DbOutcomes :
       nextRec < MaxRecords /\ PostPaidDayOff(body, db)

SpecRoster == InitRoster /\ [][NextRoster]_vars

(***************************************************************************)
(* SpecPeriods: vacation and leave periods created and updated through the *)
(* API                                                                     *)
(***************************************************************************)
\* bodies of POST /api/vacations and /api/leaves that the insert schema
\* accepts (status, startDate and endDate are any texts): the dates in
\* either order, a status of the form and another text; the server is in UTC
\* and reads the clock on day 1
ApiPeriodBodies ==
  {[schemaOk |-> TRUE, employeeId |-> 1, startDate |-> d, endDate |-> e,
    status |-> st, now |-> 25, tz |-> 0] :
     d \in Days, e \in Days, st \in {"pending", "cancelled"}}

\* bodies of PATCH /api/vacations/:id and /api/leaves/:id, passed to the
\* storage as they are
ApiPeriodPatches ==
  [status : {AbsentText, "approved", "archived"}, startDate : {AbsentDate},
   endDate : {AbsentDate} \cup Days]

InitPeriods ==
  /\ impl \in Impls
  /\ StoreIdle
  /\ HelpersIdle

NextPeriods ==
  \/ \E body \in OwnerBodies, db \in DbOutcomes :
       nextEmp < 1 /\ PostEmployee(body, db)
  \/ \E body \in ApiPeriodBodies, db \in DbOutcomes :
       nextRec < MaxRecords /\ PostVacation(body, db)
  \/ \E body \in ApiPeriodBodies, db \in DbOutcomes :
       nextRec < MaxRecords /\ PostLeave(body, db)
  \/ \E id \in RecordIds, data \in ApiPeriodPatches, db \in DbOutcomes :
       PatchVacation(id, data, db)
  \/ \E id \in RecordIds, data \in ApiPeriodPatches, db \in DbOutcomes :
       PatchLeave(id, data, db)

SpecPeriods == InitPeriods /\ [][NextPeriods]_vars

(***************************************************************************)
(* SpecUpdates: periods of one employee created and then updated           *)
(***************************************************************************)
\* bodies of POST /api/vacations and /api/leaves: a period that starts on the
\* server's current day (day 1) or on the next day; the server is in UTC
UpdateBodies ==
  {[schemaOk |-> TRUE, employeeId |-> 1, startDate |-> d, endDate |-> 2,
    status |-> st, now |-> 25, tz |-> 0] :
     d \in {1, 2}, st \in {"pending", "rejected"}}

\* bodies of PATCH /api/vacations/:id and /api/leaves/:id: status and
\* startDate each supplied or not; a supplied start date is the server's
\* current day
StatusPatches ==
  [status : {AbsentText} \cup PeriodStatuses, startDate : {AbsentDate, 1},
   endDate : {AbsentDate}]

InitUpdates ==
  /\ impl \in Impls
  /\ StoreIdle
  /\ HelpersIdle

NextUpdates ==
  \/ \E body \in OwnerBodies, db \in DbOutcomes :
       nextEmp < 1 /\ PostEmployee(body, db)
  \/ \E body \in UpdateBodies, db \in DbOutcomes :
       nextRec < MaxRecords /\ PostVacation(body, db)
  \/ \E body \in UpdateBodies, db \in DbOutcomes :
       nextRec < MaxRecords /\ PostLeave(body, db)
  \/ \E id \in RecordIds, data \in StatusPatches, db \in DbOutcomes :
       PatchVacation(id, data, db)
  \/ \E id \in RecordIds, data \in StatusPatches, db \in DbOutcomes :
       PatchLeave(id, data, db)

SpecUpdates == InitUpdates /\ [][NextUpdates]_vars

(***************************************************************************)
(* SpecPayloads: updates whose body carries employeeId or id               *)
(***************************************************************************)
\* an id that the server never generated
ForeignId == 0

\* bodies of POST /api/vacations and /api/leaves for each employee id
PayloadBodies == {PeriodBody(TRUE, e, 1, "pending", 25, 0) : e \in 1..MaxOwners}

\* bodies of PATCH /api/vacations/:id and /api/leaves/:id, passed to the
\* storage as they are: { employeeId } and { id }
PayloadPatches ==
  {[status |-> AbsentText, startDate |-> AbsentDate, endDate |-> AbsentDate,
    employeeId |-> e] : e \in {ForeignId} \cup (1..MaxOwners)}
  \cup {[status |-> AbsentText, startDate |-> AbsentDate, endDate |-> AbsentDate,
         id |-> ForeignId]}

\* bodies of PATCH /api/employees/:id: { fullName } and { fullName, id }
PayloadEmployeePatches ==
  {Row(NameA, Undef, Undef),
   [fullName |-> NameA, registrationNumber |-> Undef, position |-> Undef,
    id |-> ForeignId]}

InitPayloads ==
  /\ impl \in Impls
  /\ StoreIdle
  /\ HelpersIdle

NextPayloads ==
  \/ \E body \in OwnerBodies, db \in DbOutcomes :
       nextEmp < MaxOwners /\ PostEmployee(body, db)
  \/ \E id \in EmployeeIds, body \in PayloadEmployeePatches, db \in DbOutcomes :
       PatchEmployee(id, body, db)
  \/ \E id \in EmployeeIds, db \in DbOutcomes : DeleteEmployee(id, db)
  \/ \E body \in TimeBodies, db \in DbOutcomes :
       nextRec < MaxRecords /\ PostHoursBank(body, db)
  \/ \E body \in TimeBodies, db \in DbOutcomes :
       nextRec < MaxRecords /\ PostPaidDayOff(body, db)
  \/ \E body \in PayloadBodies, db \in DbOutcomes :
       nextRec < MaxRecords /\ PostVacation(body, db)
  \/ \E body \in PayloadBodies, db \in DbOutcomes :
       nextRec < MaxRecords /\ PostLeave(body, db)
  \/ \E id \in RecordIds, data \in PayloadPatches, db \in DbOutcomes :
       PatchVacation(id, data, db)
  \/ \E id \in RecordIds, data \in PayloadPatches, db \in DbOutcomes :
       PatchLeave(id, data, db)
  \/ \E id \in RecordIds, db \in DbOutcomes : DeleteVacation(id, db)
  \/ \E id \in RecordIds, db \in DbOutcomes : DeleteLeave(id, db)
  \/ \E id \in RecordIds, db \in DbOutcomes : DeleteHoursBank(id, db)
  \/ \E id \in RecordIds, db \in DbOutcomes : DeletePaidDayOff(id, db)

SpecPayloads == InitPayloads /\ [][NextPayloads]_vars

(***************************************************************************)
(* SpecList: the employees list page (EmployeesList) over the employee API *)
(***************************************************************************)
\* the page's state is held in the helper variables: arg is searchQuery, mid
\* is hoursFilter, out is selectedEmployees, alt records the last "remove
\* selected" (the ids it sent DELETE for, the ids displayed at the click).
\* The employees and hoursBank queries are read from the store.
UpperCase == <<"A", "D">>
LowerCase == <<"a", "d">>

\* String.prototype.toLowerCase on the letters of the texts used
toLowerCase(s) ==
  [i \in 1..Len(s) |->
     IF \E j \in 1..Len(UpperCase) : UpperCase[j] = s[i]
     THEN LowerCase[CHOOSE j \in 1..Len(UpperCase) : UpperCase[j] = s[i]]
     ELSE s[i]]

\* String.prototype.includes
includes(s, q) ==
  \E i \in 0..(Len(s) - Len(q)) : SubSeq(s, i + 1, i + Len(q)) = q

matchesSearch(employee, searchQuery) ==
  LET q == toLowerCase(searchQuery)
  IN \/ includes(toLowerCase(employee.fullName.s), q)
     \/ includes(toLowerCase(employee.registrationNumber.s), q)
     \/ includes(toLowerCase(employee.position.s), q)

matchesHours(employee, hoursFilter) ==
  LET hoursBalance == getEmployeeHoursBalance(employee.id)
  IN \/ hoursFilter = "all"
     \/ hoursFilter = "positive" /\ hoursBalance > 0
     \/ hoursFilter = "negative" /\ hoursBalance < 0
     \/ hoursFilter = "zero" /\ hoursBalance = 0

\* the ids of filteredEmployees (the order of the rows is left out)
filteredEmployees(searchQuery, hoursFilter) ==
  {k \in DOMAIN employees :
     matchesSearch(employees[k], searchQuery) /\ matchesHours(employees[k], hoursFilter)}

Displayed == filteredEmployees(arg, mid)

NoRemoval == [issued |-> {}, shown |-> {}]

SearchQueries == {<<>>, <<"2">>, <<"a">>}

HoursFilters == {"all", "positive", "negative", "zero"}

InitList ==
  /\ impl \in Impls
  /\ StoreIdle
  /\ kind = "list"
  /\ arg = <<>>
  /\ mid = "all"
  /\ out = {}
  /\ alt = NoRemoval
  /\ stage = {}

\* onChange of the search input
SetSearchQuery(q) ==
  /\ kind = "list" /\ Idle
  /\ arg' = q
  /\ UNCHANGED <<kind, mid, out, alt, stage>>
  /\ UNCHANGED storeVars

\* onValueChange of the hours filter
SetHoursFilter(f) ==
  /\ kind = "list" /\ Idle
  /\ mid' = f
  /\ UNCHANGED <<kind, arg, out, alt, stage>>
  /\ UNCHANGED storeVars

\* the checkbox of a displayed row
toggleSelectEmployee(id) ==
  /\ kind = "list" /\ Idle
  /\ id \in Displayed
  /\ out' = IF id \in out THEN out \ {id} ELSE out \cup {id}
  /\ UNCHANGED <<kind, arg, mid, alt, stage>>
  /\ UNCHANGED storeVars

\* the checkbox of the table header
toggleSelectAll ==
  /\ kind = "list" /\ Idle
  /\ Displayed # {}
  /\ out' = IF Cardinality(out) = Cardinality(Displayed) THEN {} ELSE Displayed
  /\ UNCHANGED <<kind, arg, mid, alt, stage>>
  /\ UNCHANGED storeVars

\* the "Cancelar" button of the selection bar
CancelSelection ==
  /\ kind = "list" /\ Idle
  /\ Displayed # {} /\ out # {}
  /\ out' = {}
  /\ UNCHANGED <<kind, arg, mid, alt, stage>>
  /\ UNCHANGED storeVars

\* deleteEmployee applied for each id of ids
RECURSIVE DeleteEach(_, _)
DeleteEach(map, ids) ==
  IF ids = {} THEN map
  ELSE LET id == CHOOSE x \in ids : TRUE
       IN DeleteEach(deleteEmployee(map, id), ids \ {id})

\* "Remover Selecionados" confirmed: bulkDeleteMutation.mutate(
\* Array.from(selectedEmployees)) sends DELETE /api/employees/:id for every
\* selected id; done are the ids whose request deleted an employee.  When
\* every request succeeded onSuccess clears the selection; otherwise either
\* callback may run (apiRequest is not part of the sources).
RemoveSelected(done) ==
  /\ kind = "list" /\ Idle
  /\ Displayed # {} /\ out # {}
  /\ done \subseteq out \cap DOMAIN employees
  /\ impl = "mem" => done = out \cap DOMAIN employees
  /\ alt' = [issued |-> out, shown |-> Displayed]
  /\ employees' = Without(employees, done)
  /\ hoursBank' = DeleteEach(hoursBank, done)
  /\ vacations' = DeleteEach(vacations, done)
  /\ leaves' = DeleteEach(leaves, done)
  /\ paidDaysOff' = DeleteEach(paidDaysOff, done)
  /\ out' \in (IF done = out THEN {{}} ELSE {{}, out})
  /\ resp' = Reply("removeSelected", IF done = out THEN 200 ELSE 500, 0)
  /\ bulk' = NoBulk
  /\ report' = NoReport
  /\ UNCHANGED <<impl, nextEmp, nextRec, owners>>
  /\ UNCHANGED <<kind, arg, mid, stage>>

\* the "Remover" button of a displayed row: deleteMutation.mutate(id)
RemoveRow(id, db) ==
  /\ kind = "list"
  /\ id \in Displayed
  /\ DeleteEmployee(id, db)

NextList ==
  \/ \E body \in OwnerBodies, db \in DbOutcomes :
       kind = "list" /\ nextEmp < MaxOwners /\ PostEmployee(body, db)
  \/ \E body \in TimeBodies, db \in DbOutcomes :
       kind = "list" /\ nextRec < MaxRecords /\ PostHoursBank(body, db)
  \/ \E q \in SearchQueries : SetSearchQuery(q)
  \/ \E f \in HoursFilters : SetHoursFilter(f)
  \/ \E id \in EmployeeIds : toggleSelectEmployee(id)
  \/ toggleSelectAll
  \/ CancelSelection
  \/ \E done \in SUBSET out : RemoveSelected(done)
  \/ \E id \in EmployeeIds, db \in DbOutcomes : RemoveRow(id, db)

SpecList == InitList /\ [][NextList]_vars

(***************************************************************************)
(* SpecConcurrent: a bulk import and single creations in flight together   *)
(***************************************************************************)
InitConcurrent ==
  /\ impl \in Impls
  /\ StoreIdle
  /\ HelpersIdle

NextConcurrent ==
  \/ \E body \in PostBodies, db \in DbOutcomes : PostEmployee(body, db)
  \/ \E body \in PostBodies, db \in DbOutcomes : PostEmployeeInFlight(body, db)
  \/ BulkReject
  \/ \E n \in BatchSizes, db \in DbOutcomes : BulkBegin(n, db)
  \/ \E row \in ImportRows, db \in DbOutcomes : BulkRow(row, db)
  \/ BulkRespond

SpecConcurrent == InitConcurrent /\ [][NextConcurrent]_vars

(***************************************************************************)
(* Claims about the bulk import and the employee API                       *)
(***************************************************************************)
\* the canonical key of a registration text: whitespace, periods and hyphens
\* removed
RECURSIVE CanonicalKey(_)
CanonicalKey(s) ==
  IF s = <<>> THEN <<>>
  ELSE IF Head(s) \in {" ", "\t", ".", "-"} THEN CanonicalKey(Tail(s))
  ELSE <<Head(s)>> \o CanonicalKey(Tail(s))

\* a field is empty or missing
Blank(v) == v = Undef \/ v = Str(<<>>)

\* all three fields of the row are present
Complete(row) ==
  ~Blank(row.fullName) /\ ~Blank(row.registrationNumber) /\ ~Blank(row.position)

\* an import is running or has answered 200
ImportRan == bulk.pc \in {"loop", "done"}

\* row j (1-based) has an entry in duplicates, with the given reason
Listed(j) == \E k \in 1..Len(bulk.duplicates) : bulk.duplicates[k].row = j

Reported(j, reason) ==
  \E k \in 1..Len(bulk.duplicates) :
    bulk.duplicates[k].row = j /\ bulk.duplicates[k].reason = reason

\* the rows processed so far that were created
CreatedRows == {j \in 1..bulk.i : ~Listed(j)}

RowKey(j) == CanonicalKey(bulk.rows[j].registrationNumber.s)

\* the keys of the employees stored when the import started
StartKeys == {CanonicalKey(employees[k].registrationNumber.s) : k \in bulk.startIds}

\* the employees stored since the import started
NewIds == DOMAIN employees \ bulk.startIds

\* C1: a processed row with all three fields present is reported with reason
\* "registration already exists", and no employee is created for it, if and
\* only if its sanitized registration number is that of an employee stored
\* when the import started or of a row created earlier in the batch.
ImportDuplicateIff ==
  ImportRan =>
    /\ \A j \in 1..bulk.i :
         Complete(bulk.rows[j]) =>
           (Reported(j, ReasonExists) <=>
              RowKey(j) \in StartKeys \cup {RowKey(k) : k \in {c \in CreatedRows : c < j}})
    /\ Cardinality(NewIds) = Cardinality(CreatedRows)
    /\ {employees[k].registrationNumber.s : k \in NewIds}
         = {RowKey(j) : j \in CreatedRows}
    /\ bulk.created = Cardinality(CreatedRows)

\* on an empty store the rows ("A", "1-1", "Dev"), ("A", "11", "Dev") have
\* given created = 1 with row 2 reported
ImportDuplicateIffWitness ==
  /\ bulk.pc = "done"
  /\ bulk.startIds = {}
  /\ bulk.rows = <<Row(NameA, R1d1, Dev), Row(NameA, R11, Dev)>>
  /\ report.created = 1
  /\ report.totalRows = 2
  /\ report.duplicates =
       <<[row |-> 2, fullName |-> NameA, registrationNumber |-> R11,
          reason |-> ReasonExists]>>
  /\ Cardinality(DOMAIN employees) = 1

\* C26: the key of a row joins the known keys only when the row is
\* created: the known keys are those of the snapshot and of the rows created
\* so far, and a complete row whose key is only that of an earlier row whose
\* creation failed is created or reported "creation error", never reported
\* "registration already exists".
KeyKnownOnSuccessOnly ==
  ImportRan =>
    /\ bulk.sanitizedExisting = StartKeys \cup {RowKey(j) : j \in CreatedRows}
    /\ \A j \in 1..bulk.i, f \in bulk.threw :
         (/\ f < j
          /\ Complete(bulk.rows[j])
          /\ RowKey(j) = RowKey(f)
          /\ RowKey(j) \notin StartKeys
          /\ \A c \in CreatedRows : c < j => RowKey(c) # RowKey(j))
         => j \in CreatedRows \/ Reported(j, ReasonError)

\* SqliteStorage, empty store: the creation of row 1 with registration "2"
\* failed, and row 2 with the same registration was created
KeyKnownOnSuccessOnlyWitness ==
  /\ bulk.pc = "done"
  /\ bulk.startIds = {}
  /\ bulk.rows = <<Row(NameA, R2, Dev), Row(NameA, R2, Dev)>>
  /\ bulk.threw = {1}
  /\ report.created = 1
  /\ report.duplicates =
       <<[row |-> 1, fullName |-> NameA, registrationNumber |-> R2,
          reason |-> ReasonError]>>
  /\ \E k \in DOMAIN employees : employees[k].registrationNumber = R2

\* C27: every employee created by the bulk import is stored with the
\* sanitized form of its row's registration number, and that stored number
\* is not empty: a row whose registration number is made of whitespace,
\* periods and hyphens only is not created.
ImportStoresNonEmpty ==
  ImportRan =>
    /\ \A k \in NewIds :
         /\ \E j \in CreatedRows : employees[k].registrationNumber.s = RowKey(j)
         /\ employees[k].registrationNumber.s # <<>>
    /\ \A j \in 1..bulk.i :
         (/\ bulk.rows[j].registrationNumber.t = "str"
          /\ CanonicalKey(bulk.rows[j].registrationNumber.s) = <<>>)
         => j \notin CreatedRows

\* C2: a failure on one row never aborts the batch: the row is reported
\* (reason "creation error" when the creation call fails), created is not
\* incremented for it, the later rows are processed and the import returns
\* its report.
ImportNeverAborts ==
  /\ bulk.failedRow = 0
  /\ \A j \in bulk.threw : Reported(j, ReasonError) /\ j \notin CreatedRows
  /\ bulk.pc = "done" => bulk.i = bulk.n /\ resp.status = 200

\* C3: no two stored employees have registration numbers with equal
\* sanitized forms.
NoSanitizedDuplicates ==
  \A a, b \in DOMAIN employees :
    a # b => CanonicalKey(employees[a].registrationNumber.s)
               # CanonicalKey(employees[b].registrationNumber.s)

\* the entries of a report are in ascending row order
Ascending(dups) ==
  \A k \in 1..(Len(dups) - 1) : dups[k].row < dups[k + 1].row

\* what every report satisfies whatever its entries carry
ReportAccounts ==
  /\ report.totalRows = bulk.n
  /\ Len(bulk.rows) = bulk.n
  /\ report.totalRows = report.created + Len(report.duplicates)
  /\ report.created = Cardinality(NewIds)
  /\ Ascending(report.duplicates)
  /\ \A k \in 1..Len(report.duplicates) :
       report.duplicates[k].row \in 1..bulk.n

\* C6 as stated: every report accounts for each submitted row exactly once,
\* in ascending row order, and each entry carries the 1-based position of its
\* row with the full name and the registration number as submitted.
ReportAsSubmitted ==
  bulk.pc = "done" =>
    /\ ReportAccounts
    /\ \A k \in 1..Len(report.duplicates) :
         LET e == report.duplicates[k]
         IN /\ e.fullName = bulk.rows[e.row].fullName
            /\ e.registrationNumber = bulk.rows[e.row].registrationNumber

\* C6 amended: as stated, except that an entry carries "Desconhecido" for an
\* empty or missing full name and "Vazio" for an empty or missing
\* registration number.
ReportAccountsForRows ==
  bulk.pc = "done" =>
    /\ ReportAccounts
    /\ \A k \in 1..Len(report.duplicates) :
         LET e   == report.duplicates[k]
             row == bulk.rows[e.row]
         IN /\ e.fullName = IF Blank(row.fullName) THEN Desconhecido
                            ELSE row.fullName
            /\ e.registrationNumber =
                 IF Blank(row.registrationNumber) THEN Vazio
                 ELSE row.registrationNumber

\* a report with a created row, a duplicate reported with its registration
\* number as submitted and a row without name and registration number
ReportAccountsForRowsWitness ==
  /\ bulk.pc = "done"
  /\ bulk.rows = <<Row(NameA, R11, Dev), Row(NameA, R1d1, Dev),
                   Row(Str(<<>>), Undef, Dev)>>
  /\ report.totalRows = 3
  /\ report.created = 1
  /\ report.duplicates =
       <<[row |-> 2, fullName |-> NameA, registrationNumber |-> R1d1,
          reason |-> ReasonExists],
         [row |-> 3, fullName |-> Desconhecido, registrationNumber |-> Vazio,
          reason |-> ReasonIncomplete]>>

\* C10: a row whose full name, registration number or position is empty or
\* missing is reported with reason "incomplete data"; no employee is created
\* for it, created and the known keys stay as they are, and the loop goes on
\* to the next row.
IncompleteRowSkipped ==
  [][(bulk.pc = "loop" /\ bulk.i < bulk.n
        /\ Len(bulk'.rows) = bulk.i + 1
        /\ ~Complete(bulk'.rows[bulk.i + 1]))
       => /\ Len(bulk'.duplicates) = Len(bulk.duplicates) + 1
          /\ SubSeq(bulk'.duplicates, 1, Len(bulk.duplicates)) = bulk.duplicates
          /\ bulk'.duplicates[Len(bulk'.duplicates)].row = bulk.i + 1
          /\ bulk'.duplicates[Len(bulk'.duplicates)].reason = ReasonIncomplete
          /\ employees' = employees
          /\ bulk'.created = bulk.created
          /\ bulk'.sanitizedExisting = bulk.sanitizedExisting
          /\ bulk'.i = bulk.i + 1
          /\ bulk'.pc = "loop"
          /\ bulk'.n = bulk.n]_vars

\* row 3 of a batch had an empty position: it is reported and the two rows
\* before it are the ones created
IncompleteRowSkippedWitness ==
  /\ bulk.pc = "done"
  /\ bulk.rows = <<Row(NameA, R11, Dev), Row(NameA, R2, Dev), Row(NameA, R2, Str(<<>>))>>
  /\ report.created = 2
  /\ report.duplicates =
       <<[row |-> 3, fullName |-> NameA, registrationNumber |-> R2,
          reason |-> ReasonIncomplete]>>
  /\ Cardinality(DOMAIN employees) = 2

(***************************************************************************)
(* Claims about the dependent records                                      *)
(***************************************************************************)
\* the employees deleted so far: ids are never generated twice
DeletedEmployees == (1..nextEmp) \ DOMAIN employees

RecordOps ==
  {"deleteHoursBank", "deleteVacation", "deleteLeave", "deletePaidDayOff",
   "patchVacation", "patchLeave"}

\* C4: after an employee is deleted none of its hours-bank entries, vacation
\* periods, leave periods and paid days off remains, and a later operation
\* on one of them by id reports not-found.
DeleteCascades ==
  /\ \A e \in DeletedEmployees :
       /\ OwnedBy(hoursBank, e) = {}
       /\ OwnedBy(vacations, e) = {}
       /\ OwnedBy(leaves, e) = {}
       /\ OwnedBy(paidDaysOff, e) = {}
  /\ (/\ resp.op \in RecordOps
      /\ resp.status # 500
      /\ resp.id \in DOMAIN owners
      /\ owners[resp.id] \in DeletedEmployees) => resp.status = 404

\* C5: a created period is stored as "approved" when its start date is on or
\* before the server's current date, whatever status was sent, and with the
\* status sent otherwise.
CreatedPeriodStatus ==
  \A op \in {"postVacation", "postLeave"} :
    (resp.op = op /\ resp.status = 201) =>
      LET stored == IF op = "postVacation" THEN vacations[resp.id]
                    ELSE leaves[resp.id]
      IN stored.status =
           IF stored.startDate <= resp.today THEN "approved" ELSE resp.sent

\* C28: the status MemStorage gives a created period depends only on the
\* calendar date of its start and on the server's current calendar date: it
\* is the same at every time of day and under every UTC offset that give
\* this current date, and a period that starts after the current date keeps
\* the status sent.
StatusByCalendarDates ==
  \A op \in {"postVacation", "postLeave"} :
    (impl = "mem" /\ resp.op = op /\ resp.status = 201) =>
      LET stored == IF op = "postVacation" THEN vacations[resp.id]
                    ELSE leaves[resp.id]
      IN /\ \A t \in Instants, z \in TzOffsets :
              LocalDay(t, z) = resp.today =>
                MemStoragePeriodStatus(stored.startDate, resp.sent, t, z)
                  = stored.status
         /\ stored.startDate > resp.today => stored.status = resp.sent

RECURSIVE SumOver(_, _)
SumOver(map, ids) ==
  IF ids = {} THEN 0
  ELSE LET k == CHOOSE x \in ids : TRUE
       IN map[k].hours + SumOver(map, ids \ {k})

\* C12: whenever the balance of an employee is read, it is the sum of the
\* minute values of exactly the hours-bank entries stored for that employee
\* at that moment (0 when there are none).
BalanceIsStoredSum ==
  [][(kind' = "balance" /\ helperVars' # helperVars) =>
       out' = SumOver(hoursBank', OwnedBy(hoursBank', arg'))]_vars

\* the entries +480, -120, +60 of employee 1 are stored and its balance has
\* been read as 420
BalanceIsStoredSumWitness ==
  /\ kind = "balance" /\ arg = 1
  /\ {hoursBank[k].hours : k \in OwnedBy(hoursBank, 1)} = {480, -120, 60}
  /\ Cardinality(OwnedBy(hoursBank, 1)) = 3
  /\ out = 420

\* the minutes of the seed texts
SeedMinutes(seedText) == IF seedText = <<>> THEN 0 ELSE 2400

\* C13: the paid-day-off balance read for an employee and a year is the
\* year's initial-hours seed (0 when none is set) minus the sum of the
\* minutes of that employee's paid days off of that year.
DaysOffBalanceOfYear ==
  [][(kind' = "daysOff" /\ helperVars' # helperVars) =>
       out' = SeedMinutes(arg'.seed)
              - SumOver(paidDaysOff',
                        {k \in OwnedBy(paidDaysOff', arg'.employeeId) :
                           paidDaysOff'[k].year = arg'.year})]_vars

\* employee 1 has paid days off in 2025 and in 2024, and its 2025 balance
\* has been read as 40:00 - 8:00
DaysOffBalanceOfYearWitness ==
  /\ kind = "daysOff"
  /\ arg = [employeeId |-> 1, year |-> 2025, seed |-> <<"4", "0", ":", "0", "0">>]
  /\ {<<paidDaysOff[k].year, paidDaysOff[k].hours>> :
        k \in OwnedBy(paidDaysOff, 1)} = {<<2025, 480>>, <<2024, 60>>}
  /\ out = 1920

\* an employee other than id holds exactly this registration number
HeldByOther(id, registrationNumber) ==
  \E k \in DOMAIN employees \ {id} :
    employees[k].registrationNumber = registrationNumber

\* C14: a single creation whose payload is invalid or whose registration
\* number is already stored, and an update that changes the registration
\* number to one held by another employee, are answered with an error and
\* leave the employees and all dependent records as they were.
RejectedBeforeMutation ==
  [][/\ \A body \in PostBodies, db \in DbOutcomes :
          (/\ PostEmployee(body, db)
           /\ \/ body.registrationNumber.t # "str"
              \/ HeldByOther(0, body.registrationNumber))
          => /\ resp'.op = "postEmployee" /\ resp'.status >= 400
             /\ UNCHANGED <<employees, hoursBank, vacations, leaves, paidDaysOff>>
     /\ \A id \in EmployeeIds, body \in PatchBodies, db \in DbOutcomes :
          (/\ PatchEmployee(id, body, db)
           /\ id \in DOMAIN employees
           /\ body.registrationNumber.t = "str"
           /\ body.registrationNumber # employees[id].registrationNumber
           /\ HeldByOther(id, body.registrationNumber))
          => /\ resp'.op = "patchEmployee" /\ resp'.status >= 400
             /\ UNCHANGED <<employees, hoursBank, vacations, leaves, paidDaysOff>>
    ]_vars

\* C15: every stored vacation period and leave period has a status among
\* pending, approved, rejected, completed.
PeriodStatusInEnum ==
  /\ \A k \in DOMAIN vacations : vacations[k].status \in PeriodStatuses
  /\ \A k \in DOMAIN leaves : leaves[k].status \in PeriodStatuses

\* C16: every stored vacation period and leave period ends on or after its
\* start date.
PeriodEndsAfterStart ==
  /\ \A k \in DOMAIN vacations : vacations[k].endDate >= vacations[k].startDate
  /\ \A k \in DOMAIN leaves : leaves[k].endDate >= leaves[k].startDate

\* C17: an hours-bank entry never changes between its creation and its
\* removal, and it leaves the store only through deleteHoursBank of its id
\* or through the deletion of its employee.
HoursEntryImmutable ==
  [][\A k \in DOMAIN hoursBank :
       IF k \in DOMAIN hoursBank'
       THEN hoursBank'[k] = hoursBank[k]
       ELSE /\ resp'.status = 200
            /\ \/ resp'.op = "deleteHoursBank" /\ resp'.id = k
               \/ resp'.op = "deleteEmployee"
                    /\ resp'.id = hoursBank[k].employeeId]_vars

\* MemStorage has deleted an employee: its entry is gone and the entry of
\* the other employee is stored as it was created
HoursEntryImmutableWitness ==
  /\ impl = "mem"
  /\ resp.op = "deleteEmployee" /\ resp.status = 200
  /\ \E k \in DOMAIN owners : owners[k] = resp.id /\ k \notin DOMAIN hoursBank
  /\ \E k \in DOMAIN hoursBank :
       /\ hoursBank[k].employeeId # resp.id
       /\ hoursBank[k] = [id |-> k, employeeId |-> 2, month |-> 1, year |-> 2025,
                          hours |-> 60, description |-> "note"]

\* new is old with exactly the fields that data supplies replaced
SuppliedOnly(old, new, data) ==
  /\ data.status = AbsentText => new.status = old.status
  /\ data.startDate = AbsentDate => new.startDate = old.startDate
  /\ data.endDate = AbsentDate => new.endDate = old.endDate
  /\ new.employeeId = old.employeeId
  /\ new.id = old.id

\* C22: the auto-approve rule is applied at creation only: an update of a
\* stored vacation or leave period, a change of its start date to the
\* current day included, leaves its status as it was unless the update
\* supplies a status, and every field the update does not supply keeps its
\* value.
UpdateKeepsUnsupplied ==
  [][/\ (resp'.op = "patchVacation" /\ resp'.status = 200) =>
          \A data \in StatusPatches :
            \/ SuppliedOnly(vacations[resp'.id], vacations'[resp'.id], data)
            \/ ~PatchVacation(resp'.id, data, "ok")
     /\ (resp'.op = "patchLeave" /\ resp'.status = 200) =>
          \A data \in StatusPatches :
            \/ SuppliedOnly(leaves[resp'.id], leaves'[resp'.id], data)
            \/ ~PatchLeave(resp'.id, data, "ok")]_vars

\* MemStorage: a vacation period created for the next day, hence pending,
\* has had its start date set to the current day and is still pending
UpdateKeepsUnsuppliedWitness ==
  /\ impl = "mem"
  /\ resp.op = "patchVacation" /\ resp.status = 200
  /\ resp.id \in DOMAIN vacations
  /\ vacations[resp.id].startDate = 1
  /\ vacations[resp.id].status = "pending"

\* C23: no status transition is refused: an update that sets a status t of
\* the four on a stored vacation or leave period in a status s of the four
\* is answered 200 and leaves the period in status t, whatever s and t are
\* (the database answering).
AnyTransitionAccepted ==
  [][/\ (/\ resp'.op = "patchVacation"
         /\ resp'.id \in DOMAIN vacations
         /\ vacations[resp'.id].status \in PeriodStatuses) =>
          \A data \in StatusPatches :
            \/ data.status \notin PeriodStatuses
            \/ resp'.status = 200 /\ vacations'[resp'.id].status = data.status
            \/ ~PatchVacation(resp'.id, data, "ok")
     /\ (/\ resp'.op = "patchLeave"
         /\ resp'.id \in DOMAIN leaves
         /\ leaves[resp'.id].status \in PeriodStatuses) =>
          \A data \in StatusPatches :
            \/ data.status \notin PeriodStatuses
            \/ resp'.status = 200 /\ leaves'[resp'.id].status = data.status
            \/ ~PatchLeave(resp'.id, data, "ok")]_vars

\* a leave period that was completed has been set to pending, and the update
\* was answered 200
AnyTransitionAcceptedWitness ==
  /\ resp.op = "patchLeave" /\ resp.status = 200
  /\ resp.was = "completed"
  /\ leaves[resp.id].status = "pending"

\* C25: every stored hours-bank entry, vacation period, leave period and
\* paid day off has the id of a stored employee as its employeeId, after any
\* creations, updates and deletions through the API.
ReferencesStoredEmployee ==
  \A table \in {hoursBank, vacations, leaves, paidDaysOff} :
    \A k \in DOMAIN table : table[k].employeeId \in DOMAIN employees

\* C29: the id field of every stored employee, vacation period and leave
\* period is the id under which it is stored and looked up: no update
\* changes it, whatever the body carries.
IdFieldIsKey ==
  \A table \in {employees, vacations, leaves} :
    \A k \in DOMAIN table : table[k].id = k

\* C18: no two stored employees have the identical registration-number
\* string.
UniqueRegistrationStrings ==
  \A a, b \in DOMAIN employees :
    a # b => employees[a].registrationNumber # employees[b].registrationNumber

\* C19: MemStorage and SqliteStorage give the same result on the same
\* operation: when an employee is deleted both leave the same dependent
\* records, and a created period is stored with the same status by both.
StoragesAgree ==
  [][/\ (resp'.op = "deleteEmployee" /\ resp'.status = 200) =>
          \A table \in {hoursBank, vacations, leaves, paidDaysOff} :
            MemStorageDeleteEmployee(table, resp'.id)
              = SqliteStorageDeleteEmployee(table, resp'.id)
     /\ \A body \in PeriodBodies :
          (/\ PostVacation(body, "ok") \/ PostLeave(body, "ok")
           /\ resp'.status = 201)
          => MemStoragePeriodStatus(body.startDate, body.status, body.now, body.tz)
               = SqliteStoragePeriodStatus(body.startDate, body.status,
                                           body.now, body.tz)]_vars

\* C20: each operation runs to completion before the next begins: while a
\* bulk import is between its snapshot and its last row, the stored
\* employees are those of the snapshot and those the import created (no
\* other request's mutation takes effect), and no two employees are created
\* with the same registration number.
OperationsRunToCompletion ==
  /\ bulk.pc = "loop" =>
       /\ Cardinality(NewIds) = bulk.created
       /\ {CanonicalKey(employees[k].registrationNumber.s) : k \in DOMAIN employees}
            = bulk.sanitizedExisting
  /\ \A a, b \in DOMAIN employees :
       a # b => employees[a].registrationNumber.s # employees[b].registrationNumber.s

\* C30: in the employees list the selected employees are among the
\* employees the search and the filter display, and "remove selected" sends
\* deletions only for displayed employees.
SelectionIsDisplayed ==
  kind = "list" =>
    /\ out \subseteq Displayed
    /\ alt.issued \subseteq alt.shown

====
